---- MODULE Spec2Model ----
(***************************************************************************)
(* Model of the business-messaging lead bot: the storage layer             *)
(* (app/db.py: leads, escalations, settings), the escalation manager and   *)
(* the per-message orchestrator (app/handlers/business.py).                *)
(*                                                                         *)
(* Conventions.                                                            *)
(*  - A nullable value (SQL NULL, Python None) is a sequence of length at  *)
(*    most one: None is <<>>, Some(v) is <<v>>.  A table maps a key to     *)
(*    None (no row) or Some(row).                                          *)
(*  - Time is an integer number of minutes.                                *)
(*  - A text is a sequence of tokens; a token is a piece of the original   *)
(*    string, transliterated to ASCII, cut so that every pattern the code  *)
(*    looks for is itself a sequence of tokens.  "x in low" of the source  *)
(*    is Contains(low, x).                                                 *)
(***************************************************************************)
EXTENDS Integers, Sequences, FiniteSets, TLC

VARIABLES
    now,          \* the clock, in minutes (datetime.now / SQL NOW())
    config,       \* app.config.Config: [openai_api_key, admin_chat_id]
    connections,  \* the connections row of the one business connection
    clients,      \* client key -> whether a clients row exists
    leads,        \* client key -> None | Some(leads row)
    escalations,  \* client key -> None | Some(escalations row)
    settings,     \* settings['admin_chat_id']: None | Some(chat id)
    calls,        \* in-flight mark_escalation calls (concurrent specification)
    last,         \* observation of the last completed operation
    lastTrueAt,   \* observation: time of the last mark_escalation that returned true
    kb_chunks     \* the rows of table kb_chunks, in insertion order

vars == <<now, config, connections, clients, leads, escalations, settings,
          calls, last, lastTrueAt, kb_chunks>>

----------------------------------------------------------------------------
(* Bounds of the model *)

MaxNow == 21
MaxRaceTicks == 2
MaxClock == 10

(* Program constants *)

CooldownMinutes == 10

STEP_WELCOME == 0
STEP_NEED == 1
STEP_BUDGET == 2
STEP_DEADLINE == 3
STEP_CONTACT_METHOD == 4
STEP_PHONE == 5
STEP_CALL_TIME == 6
STEP_DONE == 7

----------------------------------------------------------------------------
(* Nullable values *)

None == <<>>
Some(v) == <<v>>

\* Python truthiness of an optional string: neither None nor "".
Truthy(o) == o # None /\ o[1] # <<>>

Clients == {"A", "B"}

----------------------------------------------------------------------------
(* leads rows *)

\* INSERT INTO leads ... VALUES ($1, $2, 0, NULL, ..., FALSE, NULL, ..., NOW(), NOW())
FreshLead(t) ==
    [ step |-> STEP_WELCOME,
      need |-> None, budget |-> None, deadline |-> None,
      contact_method |-> None, phone |-> None, call_time |-> None,
      summary_json |-> None,
      escalation_open |-> FALSE, escalation_last_at |-> None,
      last_client_message |-> None, rag_sources_json |-> None,
      urgency |-> None,
      updated_at |-> t ]

\* The keyword arguments of update_lead_fields, all defaulted to None.
NoFields ==
    [ step |-> None, need |-> None, budget |-> None, deadline |-> None,
      contact_method |-> None, phone |-> None, call_time |-> None,
      summary |-> None, escalation_open |-> None, escalation_last_at |-> None,
      last_client_message |-> None, rag_sources |-> None, urgency |-> None ]

\* json.dumps / json.loads of a stored value
json_dumps(v) == <<"json", v>>
json_loads(s) == s[2]

\* A plausible slip: the UPDATE lists every column, so an argument left at
\* None writes NULL.
update_lead_fields_nulling(lead, f, t) ==
    IF lead = None THEN None
    ELSE Some(
      [ step |-> IF f.step # None THEN f.step[1] ELSE lead[1].step,
        need |-> f.need, budget |-> f.budget, deadline |-> f.deadline,
        contact_method |-> f.contact_method, phone |-> f.phone,
        call_time |-> f.call_time, summary_json |-> f.summary,
        escalation_open |-> IF f.escalation_open # None
                            THEN f.escalation_open[1]
                            ELSE lead[1].escalation_open,
        escalation_last_at |-> f.escalation_last_at,
        last_client_message |-> f.last_client_message,
        rag_sources_json |-> f.rag_sources,
        urgency |-> f.urgency,
        updated_at |-> t ])

\* Database.update_lead_fields: one UPDATE whose SET list holds exactly the
\* arguments that are not None, plus updated_at = NOW().  No row: no effect.
update_lead_fields(lead, f, t) ==
    IF lead = None THEN None
    ELSE Some(
      [ step |-> IF f.step # None THEN f.step[1] ELSE lead[1].step,
        need |-> IF f.need # None THEN f.need ELSE lead[1].need,
        budget |-> IF f.budget # None THEN f.budget ELSE lead[1].budget,
        deadline |-> IF f.deadline # None THEN f.deadline ELSE lead[1].deadline,
        contact_method |-> IF f.contact_method # None THEN f.contact_method
                           ELSE lead[1].contact_method,
        phone |-> IF f.phone # None THEN f.phone ELSE lead[1].phone,
        call_time |-> IF f.call_time # None THEN f.call_time ELSE lead[1].call_time,
        summary_json |-> IF f.summary # None THEN Some(json_dumps(f.summary[1]))
                        ELSE lead[1].summary_json,
        escalation_open |-> IF f.escalation_open # None
                            THEN f.escalation_open[1]
                            ELSE lead[1].escalation_open,
        escalation_last_at |-> IF f.escalation_last_at # None
                               THEN f.escalation_last_at
                               ELSE lead[1].escalation_last_at,
        last_client_message |-> IF f.last_client_message # None
                                THEN f.last_client_message
                                ELSE lead[1].last_client_message,
        rag_sources_json |-> IF f.rag_sources # None
                             THEN Some(json_dumps(f.rag_sources[1]))
                             ELSE lead[1].rag_sources_json,
        urgency |-> IF f.urgency # None THEN f.urgency ELSE lead[1].urgency,
        updated_at |-> t ])

\* A plausible slip: the conflict branch leaves budget out of its SET list.
create_or_reset_lead_keeping_budget(lead, t) ==
    IF lead = None THEN Some(FreshLead(t))
    ELSE Some([ FreshLead(t) EXCEPT !.budget = lead[1].budget ])

\* Database.create_or_reset_lead: INSERT ... ON CONFLICT DO UPDATE SET every
\* column to its initial value.  Either way the row is the fresh row.
create_or_reset_lead(lead, t) == Some(FreshLead(t))

\* Database.get_or_create_lead: INSERT ... ON CONFLICT DO NOTHING.
get_or_create_lead(lead, t) == IF lead # None THEN lead ELSE Some(FreshLead(t))

----------------------------------------------------------------------------
(* update_lead_fields on its own: a stored row, one call with any subset   *)
(* of the keyword arguments supplied.                                      *)

UpdCols == { "step", "need", "budget", "deadline", "contact_method", "phone",
             "call_time", "summary", "escalation_open", "escalation_last_at",
             "last_client_message", "rag_sources", "urgency" }

\* The column an argument is written to.
ColumnOf(k) ==
    CASE k = "summary" -> "summary_json"
      [] k = "rag_sources" -> "rag_sources_json"
      [] OTHER -> k

\* A value to supply for argument k: variant "falsy" is the value that is
\* not None but is false in Python (0, False, "", []), "truthy" a usual one.
NewValue(k, variant) ==
    CASE k = "step" -> Some(IF variant = "falsy" THEN STEP_WELCOME ELSE STEP_DEADLINE)
      [] k = "escalation_open" -> Some(variant # "falsy")
      [] k = "escalation_last_at" -> Some(now)
      [] k = "urgency" -> Some(IF variant = "falsy" THEN "" ELSE "high")
      [] k = "rag_sources" -> Some(IF variant = "falsy" THEN <<>> ELSE <<"u9">>)
      [] k = "summary" -> Some(IF variant = "falsy" THEN <<>> ELSE <<"s9">>)
      [] OTHER -> Some(IF variant = "falsy" THEN <<>> ELSE <<"new", k>>)

FieldsOf(S, variant) ==
    [ k \in UpdCols |-> IF k \in S THEN NewValue(k, variant) ELSE None ]

\* Rows the table can hold: a fresh one, one in mid-dialog, a finished one.
UpdRows ==
    { FreshLead(0),
      [ FreshLead(0) EXCEPT !.step = STEP_BUDGET, !.need = Some(<<"bot">>),
                            !.last_client_message = Some(<<"bot">>),
                            !.rag_sources_json = Some(json_dumps(<<"u1">>)) ],
      [ step |-> STEP_DONE, need |-> Some(<<"bot">>), budget |-> Some(<<"30k">>),
        deadline |-> Some(<<"month">>), contact_method |-> Some(<<"phone">>),
        phone |-> Some(<<"8", "9">>), call_time |-> Some(<<"noon">>),
        summary_json |-> Some(json_dumps(<<"s1">>)),
        escalation_open |-> TRUE, escalation_last_at |-> Some(0),
        last_client_message |-> Some(<<"8", "9">>),
        rag_sources_json |-> Some(json_dumps(<<"u1">>)),
        urgency |-> Some("medium"), updated_at |-> 0 ] }

NoLast == [ op |-> "none" ]

UpdInit ==
    /\ now \in 1..2
    /\ config = [ openai_api_key |-> FALSE, admin_chat_id |-> None ]
    /\ connections = None
    /\ clients = [ c \in Clients |-> FALSE ]
    /\ \E r \in {None} \cup { Some(x) : x \in UpdRows } :
           leads = [ c \in Clients |-> IF c = "A" THEN r ELSE None ]
    /\ escalations = [ c \in Clients |-> None ]
    /\ settings = None
    /\ calls = [ i \in {1, 2} |-> [ pc |-> "idle" ] ]
    /\ last = NoLast
    /\ lastTrueAt = [ c \in Clients |-> None ]
    /\ kb_chunks = <<>>

\* One call update_lead_fields(client, **f).
UpdApply(c, S, variant) ==
    /\ leads' = [ leads EXCEPT ![c] = update_lead_fields(@, FieldsOf(S, variant), now) ]
    /\ last' = [ op |-> "update_lead_fields", client |-> c,
                 f |-> FieldsOf(S, variant), at |-> now, pre |-> leads[c] ]
    /\ UNCHANGED <<now, config, connections, clients, escalations, settings,
                   calls, lastTrueAt,
                   kb_chunks>>

UpdNext ==
    /\ last.op = "none"
    /\ \E S \in SUBSET UpdCols, variant \in {"falsy", "truthy"} : UpdApply("A", S, variant)

SpecUpd == UpdInit /\ [][UpdNext]_vars

----------------------------------------------------------------------------
(* escalations rows and mark_escalation *)

\* A plausible slip: "<=" for "<" in the cooldown comparison.
cooldown_active_inclusive(row, t, cooldown) ==
    /\ row # None
    /\ row[1].last_alert_at # None
    /\ (t - row[1].last_alert_at[1]) <= cooldown

\* mark_escalation, the SELECT and the test on it: the cooldown is running
\* iff a row exists, its last_alert_at is set and (now - prev) < cooldown.
cooldown_active(row, t, cooldown) ==
    /\ row # None
    /\ row[1].last_alert_at # None
    /\ (t - row[1].last_alert_at[1]) < cooldown

\* A plausible slip: reason, urgency and last_message written only when the
\* alert is due.
upsert_escalation_gated(row, t, a, should_alert) ==
    IF row = None
    THEN Some([ escalation_open |-> TRUE, last_alert_at |-> Some(t),
                reason |-> a.reason, urgency |-> a.urgency,
                last_message |-> a.last_message ])
    ELSE Some([ escalation_open |-> TRUE,
                last_alert_at |-> IF should_alert THEN Some(t)
                                  ELSE row[1].last_alert_at,
                reason |-> IF should_alert THEN a.reason ELSE row[1].reason,
                urgency |-> IF should_alert THEN a.urgency ELSE row[1].urgency,
                last_message |-> IF should_alert THEN a.last_message
                                 ELSE row[1].last_message ])

\* mark_escalation, the INSERT ... ON CONFLICT DO UPDATE: `row` is the row
\* the statement finds, `should_alert` the parameter $7.
upsert_escalation(row, t, a, should_alert) ==
    IF row = None
    THEN Some([ escalation_open |-> TRUE, last_alert_at |-> Some(t),
                reason |-> a.reason, urgency |-> a.urgency,
                last_message |-> a.last_message ])
    ELSE Some([ escalation_open |-> TRUE,
                last_alert_at |-> IF should_alert THEN Some(t)
                                  ELSE row[1].last_alert_at,
                reason |-> a.reason, urgency |-> a.urgency,
                last_message |-> a.last_message ])

\* A plausible slip: the lead is re-created whether or not it exists.
mark_escalation_lead_reset(lead, t, a, should_alert) ==
    LET row == create_or_reset_lead(lead, t)
        last_at == IF should_alert THEN Some(t)
                   ELSE IF lead # None THEN lead[1].escalation_last_at
                   ELSE Some(t)
    IN update_lead_fields(row,
           [NoFields EXCEPT !.escalation_open = Some(TRUE),
                            !.escalation_last_at = last_at,
                            !.urgency = Some(a.urgency)],
           t)

\* mark_escalation, after the transaction: get_lead, create the lead if there
\* is none, then update_lead_fields(escalation_open, escalation_last_at,
\* urgency).  `lead` is the row get_lead returned (the created row is not
\* re-read into it).
mark_escalation_lead(lead, t, a, should_alert) ==
    LET row == IF lead = None THEN create_or_reset_lead(lead, t) ELSE lead
        last_at == IF should_alert THEN Some(t)
                   ELSE IF lead # None THEN lead[1].escalation_last_at
                   ELSE Some(t)
    IN update_lead_fields(row,
           [NoFields EXCEPT !.escalation_open = Some(TRUE),
                            !.escalation_last_at = last_at,
                            !.urgency = Some(a.urgency)],
           t)

\* Database.mark_escalation run without interruption: the result, the
\* escalations row and the leads row it leaves.
mark_escalation(lead, esc, t, a, cooldown) ==
    LET should_alert == ~cooldown_active(esc, t, cooldown)
    IN [ should_alert |-> should_alert,
         esc |-> upsert_escalation(esc, t, a, should_alert),
         lead |-> mark_escalation_lead(lead, t, a, should_alert) ]

\* A plausible slip: closing also clears the alert stamp.
close_escalation_row_clearing(esc) ==
    IF esc = None THEN None
    ELSE Some([esc[1] EXCEPT !.escalation_open = FALSE, !.last_alert_at = None])

\* Database.close_escalation: UPDATE escalations SET escalation_open = FALSE,
\* then update_lead_fields(escalation_open=False).
close_escalation_row(esc) ==
    IF esc = None THEN None ELSE Some([esc[1] EXCEPT !.escalation_open = FALSE])

close_escalation_lead(lead, t) ==
    update_lead_fields(lead, [NoFields EXCEPT !.escalation_open = Some(FALSE)], t)

----------------------------------------------------------------------------
(* Sequential use of the escalation store: one caller at a time *)

EscArgs ==
    { [ reason |-> "operator", urgency |-> "high", last_message |-> <<"m1">> ],
      [ reason |-> "negative", urgency |-> "medium", last_message |-> <<"m2">> ] }

NoCall == [ pc |-> "idle" ]
Procs == {1, 2}

EscInit ==
    /\ now = 0
    /\ config = [ openai_api_key |-> FALSE, admin_chat_id |-> None ]
    /\ connections = None
    /\ clients = [c \in Clients |-> FALSE]
    /\ leads \in { [c \in Clients |-> None],
                   [c \in Clients |-> Some(FreshLead(0))] }
    /\ escalations = [c \in Clients |-> None]
    /\ settings = None
    /\ calls = [i \in Procs |-> NoCall]
    /\ last = [ op |-> "none" ]
    /\ lastTrueAt = None
    /\ kb_chunks = <<>>

Tick ==
    /\ now < MaxNow
    /\ now' = now + 1
    /\ UNCHANGED <<config, connections, clients, leads, escalations, settings,
                   calls, last, lastTrueAt,
                   kb_chunks>>

EscMark(c, a) ==
    LET r == mark_escalation(leads[c], escalations[c], now, a, CooldownMinutes)
    IN /\ escalations' = [escalations EXCEPT ![c] = r.esc]
       /\ leads' = [leads EXCEPT ![c] = r.lead]
       /\ last' = [ op |-> "mark_escalation", args |-> a, at |-> now,
                    should_alert |-> r.should_alert,
                    prevTrue |-> lastTrueAt,
                    prev |-> escalations[c] ]
       /\ lastTrueAt' = IF r.should_alert THEN Some(now) ELSE lastTrueAt
       /\ UNCHANGED <<now, config, connections, clients, settings, calls,
                   kb_chunks>>

EscClose(c) ==
    /\ escalations' = [escalations EXCEPT ![c] = close_escalation_row(@)]
    /\ leads' = [leads EXCEPT ![c] = close_escalation_lead(@, now)]
    /\ last' = [ op |-> "close_escalation" ]
    /\ UNCHANGED <<now, config, connections, clients, settings, calls, lastTrueAt,
                   kb_chunks>>

EscNext ==
    \/ Tick
    \/ \E a \in EscArgs : EscMark("A", a)
    \/ EscClose("A")

SpecEsc == EscInit /\ [][EscNext]_vars

----------------------------------------------------------------------------
(* Concurrent mark_escalation calls.  Each call runs on its own pooled     *)
(* connection inside conn.transaction(), which asyncpg opens at the        *)
(* server's default isolation level, READ COMMITTED: the SELECT reads the  *)
(* last committed row; the upsert waits for a concurrent uncommitted       *)
(* writer of the same key and then works on the row that writer committed. *)
(* Every await of the method is a separate step.                           *)

LastAlertAt(esc) == IF esc = None THEN None ELSE esc[1].last_alert_at

OpenEscalation(t, a) ==
    [ escalation_open |-> TRUE, last_alert_at |-> Some(t), reason |-> a.reason,
      urgency |-> a.urgency, last_message |-> a.last_message ]

\* The calls start at or after minute CooldownMinutes; an earlier alert, if
\* there was one, was stamped at minute 1 (still inside its window at the
\* first minute of the run, outside from the next minute on).
RaceInit ==
    /\ now = CooldownMinutes
    /\ config = [ openai_api_key |-> FALSE, admin_chat_id |-> None ]
    /\ connections = None
    /\ clients = [c \in Clients |-> FALSE]
    /\ leads \in { [c \in Clients |-> None],
                   [c \in Clients |-> Some(FreshLead(0))] }
    /\ \E a \in EscArgs :
          escalations \in { [c \in Clients |-> None],
                            [c \in Clients |-> Some(OpenEscalation(1, a))] }
    /\ settings = None
    /\ calls = [i \in Procs |-> NoCall]
    /\ last = [ op |-> "none" ]
    /\ lastTrueAt = None
    /\ kb_chunks = <<>>

RaceTick ==
    /\ now < CooldownMinutes + MaxRaceTicks
    /\ now' = now + 1
    /\ UNCHANGED <<config, connections, clients, leads, escalations, settings,
                   calls, last, lastTrueAt,
                   kb_chunks>>

\* now = datetime.now(timezone.utc); should_alert = True; acquire; BEGIN
RaceStart(i, c, a) ==
    /\ calls[i].pc = "idle"
    /\ calls' = [calls EXCEPT ![i] =
                   [ pc |-> "select", client |-> c, args |-> a, now |-> now,
                     should_alert |-> TRUE, pending |-> None, lead |-> None ]]
    /\ UNCHANGED <<now, config, connections, clients, leads, escalations,
                   settings, last, lastTrueAt,
                   kb_chunks>>

\* row = await conn.fetchrow(SELECT last_alert_at ...) and the test on it
RaceSelect(i) ==
    /\ calls[i].pc = "select"
    /\ calls' = [calls EXCEPT ![i].pc = "upsert",
                              ![i].should_alert =
                                  ~cooldown_active(escalations[calls[i].client],
                                                   calls[i].now, CooldownMinutes)]
    /\ UNCHANGED <<now, config, connections, clients, leads, escalations,
                   settings, last, lastTrueAt,
                   kb_chunks>>

\* await conn.execute(INSERT ... ON CONFLICT DO UPDATE ...): blocked while
\* another transaction holds an uncommitted write of the same key.
RaceUpsert(i) ==
    /\ calls[i].pc = "upsert"
    /\ \A j \in Procs \ {i} :
          ~(calls[j].pc = "commit" /\ calls[j].client = calls[i].client)
    /\ calls' = [calls EXCEPT ![i].pc = "commit",
                              ![i].pending =
                                  upsert_escalation(escalations[calls[i].client],
                                                    calls[i].now, calls[i].args,
                                                    calls[i].should_alert)]
    /\ UNCHANGED <<now, config, connections, clients, leads, escalations,
                   settings, last, lastTrueAt,
                   kb_chunks>>

\* leaving "async with conn.transaction()": COMMIT
RaceCommit(i) ==
    /\ calls[i].pc = "commit"
    /\ escalations' = [escalations EXCEPT ![calls[i].client] = calls[i].pending]
    /\ calls' = [calls EXCEPT ![i].pc = "get_lead"]
    /\ UNCHANGED <<now, config, connections, clients, leads, settings, last,
                   lastTrueAt,
                   kb_chunks>>

\* lead = await self.get_lead(...)
RaceGetLead(i) ==
    /\ calls[i].pc = "get_lead"
    /\ calls' = [calls EXCEPT ![i].pc = IF leads[calls[i].client] = None
                                        THEN "create_lead" ELSE "update_lead",
                              ![i].lead = leads[calls[i].client]]
    /\ UNCHANGED <<now, config, connections, clients, leads, escalations,
                   settings, last, lastTrueAt,
                   kb_chunks>>

\* await self.create_or_reset_lead(...)
RaceCreateLead(i) ==
    /\ calls[i].pc = "create_lead"
    /\ leads' = [leads EXCEPT ![calls[i].client] = create_or_reset_lead(@, now)]
    /\ calls' = [calls EXCEPT ![i].pc = "update_lead"]
    /\ UNCHANGED <<now, config, connections, clients, escalations, settings,
                   last, lastTrueAt,
                   kb_chunks>>

\* await self.update_lead_fields(...); return should_alert
RaceUpdateLead(i) ==
    /\ calls[i].pc = "update_lead"
    /\ LET k == calls[i]
           last_at == IF k.should_alert THEN Some(k.now)
                      ELSE IF k.lead # None THEN k.lead[1].escalation_last_at
                      ELSE Some(k.now)
       IN leads' = [leads EXCEPT ![k.client] =
                      update_lead_fields(@,
                          [NoFields EXCEPT !.escalation_open = Some(TRUE),
                                           !.escalation_last_at = last_at,
                                           !.urgency = Some(k.args.urgency)],
                          now)]
    /\ calls' = [calls EXCEPT ![i].pc = "done"]
    /\ UNCHANGED <<now, config, connections, clients, escalations, settings,
                   last, lastTrueAt,
                   kb_chunks>>

RaceNext ==
    \/ RaceTick
    \/ \E i \in Procs, a \in EscArgs : RaceStart(i, "A", a)
    \/ \E i \in Procs : RaceSelect(i)
    \/ \E i \in Procs : RaceUpsert(i)
    \/ \E i \in Procs : RaceCommit(i)
    \/ \E i \in Procs : RaceGetLead(i)
    \/ \E i \in Procs : RaceCreateLead(i)
    \/ \E i \in Procs : RaceUpdateLead(i)

SpecRace == RaceInit /\ [][RaceNext]_vars

----------------------------------------------------------------------------
(* Texts.  Tokens are ASCII transliterations of pieces of the original     *)
(* strings; the en dash is "--", the contact icon of the manager button is *)
(* "(i)".  A token in upper case has a lower-case twin (LowerTok).         *)

Digits == {"0", "1", "2", "3", "4", "5", "6", "7", "8", "9"}

\* str.lower, token by token
LowerTok(tok) ==
    CASE tok = "MENEDZHER" -> "menedzher"
      [] tok = "A" -> "a"
      [] tok = "Pozvat" -> "pozvat"
      [] tok = "Telegram" -> "telegram"
      [] OTHER -> tok

lower(text) == [i \in DOMAIN text |-> LowerTok(text[i])]

\* "needle in hay"
Contains(hay, needle) ==
    \E i \in 0..(Len(hay) - Len(needle)) :
        SubSeq(hay, i + 1, i + Len(needle)) = needle

\* any(p in low for p in patterns)
AnyIn(patterns, low) == \E p \in patterns : Contains(low, p)

RECURSIVE Without(_, _)
\* str.replace(tok, "")
Without(text, tok) ==
    IF text = <<>> THEN <<>>
    ELSE IF Head(text) = tok THEN Without(Tail(text), tok)
    ELSE <<Head(text)>> \o Without(Tail(text), tok)

RECURSIVE lstrip(_)
lstrip(text) ==
    IF text # <<>> /\ Head(text) = " " THEN lstrip(Tail(text)) ELSE text

RECURSIVE rstrip(_)
rstrip(text) ==
    IF text # <<>> /\ text[Len(text)] = " "
    THEN rstrip(SubSeq(text, 1, Len(text) - 1)) ELSE text

\* str.strip
strip(text) == rstrip(lstrip(text))

\* keyboards.MANAGER_BUTTON
MANAGER_BUTTON == <<"(i)", " ", "Pozvat", " ", "menedzher", "a">>

\* business.TEXT_NON_MESSAGE
TEXT_NON_MESSAGE == <<"<", "ne", " ", "tekstovoe", " ", "soobshchenie", ">">>

HUMAN_REQUEST_PATTERNS ==
    { <<"operator">>, <<"menedzher">>, <<"chelovek">>, <<"zhivoj">>,
      <<"svyazhite">>, <<"pozovite">>, <<"pereklyuchite">>,
      <<"ne", " ", "bot">>, <<"hochu", " ", "pogovorit">>,
      <<"peredaj", " ", "rukovoditelyu">> }

NEGATIVE_HARD_PATTERNS ==
    { <<"moshenniki">>, <<"obman">>, <<"razvod">>, <<"vernite", " ", "dengi">>,
      <<"obman", "uli">>, <<"sud">>, <<"prokuratur">>, <<"rospotrebnadzor">>,
      <<"zayavlenie">>, <<"zhaloba">>, <<"pretenziya">> }

NEGATIVE_SOFT_PATTERNS ==
    { <<"plohoj", " ", "servis">>, <<"vy", " ", "dostali">>, <<"uzhas">>,
      <<"nenavizhu">>, <<"ne", " ", "nravitsya">>, <<"razocharovan">> }

PROFANITY_PATTERNS ==
    { <<"idiot">>, <<"tupye">>, <<"suka">>, <<"blyat">>, <<"her">>,
      <<"dolbo">>, <<"urody">> }

NEED_BOT == <<"bot">>
NEED_SITE == <<"sajt">>
NEED_AUTOMATION == <<"avtomat", "izaciya">>
NEED_OTHER == <<"drugo", "e">>
ALLOWED_NEED == { NEED_BOT, NEED_SITE, NEED_AUTOMATION, NEED_OTHER }

BUDGET_UPTO30 == <<"do", " ", "30", "k">>
BUDGET_30_80 == <<"30", "--", "80", "k">>
BUDGET_80_150 == <<"80", "--", "150", "k">>
BUDGET_150PLUS == <<"150", "k", "+">>
ALLOWED_BUDGET == { BUDGET_UPTO30, BUDGET_30_80, BUDGET_80_150, BUDGET_150PLUS }

DEADLINE_URGENT == <<"sroch", "no", " ", "1", "--", "3", " ", "dnya">>
DEADLINE_WEEKS == <<"1", "--", "2", " ", "nedel", "i">>
DEADLINE_MONTH == <<"v", " ", "techenie", " ", "mesyac", "a">>
DEADLINE_RELAXED == <<"ne", " ", "gor", "it">>
ALLOWED_DEADLINE ==
    { DEADLINE_URGENT, DEADLINE_WEEKS, DEADLINE_MONTH, DEADLINE_RELAXED }

CONTACT_TELEGRAM == <<"v", " ", "Telegram">>
CONTACT_PHONE == <<"po", " ", "telefon", "u">>
CONTACT_CALL == <<"so", "zvon">>
ALLOWED_CONTACT == { CONTACT_TELEGRAM, CONTACT_PHONE, CONTACT_CALL }

\* _normalize_need
_normalize_need(value) ==
    LET low == strip(lower(value))
    IN IF Contains(low, <<"bot">>) THEN Some(NEED_BOT)
       ELSE IF Contains(low, <<"sajt">>) THEN Some(NEED_SITE)
       ELSE IF Contains(low, <<"avtomat">>) THEN Some(NEED_AUTOMATION)
       ELSE IF Contains(low, <<"drugo">>) THEN Some(NEED_OTHER)
       ELSE IF low \in ALLOWED_NEED THEN Some(low)
       ELSE None

\* _normalize_budget
_normalize_budget(value) ==
    LET low == Without(lower(value), " ")
    IN IF Contains(low, <<"30">>) /\ (Contains(low, <<"do">>) \/ Contains(low, <<"<">>))
       THEN Some(BUDGET_UPTO30)
       ELSE IF Contains(low, <<"30">>) /\ Contains(low, <<"80">>)
       THEN Some(BUDGET_30_80)
       ELSE IF Contains(low, <<"80">>) /\ Contains(low, <<"150">>)
       THEN Some(BUDGET_80_150)
       ELSE IF Contains(low, <<"150">>) \/ Contains(low, <<"+">>)
       THEN Some(BUDGET_150PLUS)
       ELSE IF value \in ALLOWED_BUDGET THEN Some(value)
       ELSE None

\* _normalize_deadline
_normalize_deadline(value) ==
    LET low == lower(value)
    IN IF \/ Contains(low, <<"sroch">>)
          \/ Contains(low, <<"1", "-", "3">>)
          \/ Contains(low, <<"1", "--", "3">>)
       THEN Some(DEADLINE_URGENT)
       ELSE IF \/ Contains(low, <<"1", "-", "2">>)
               \/ Contains(low, <<"1", "--", "2">>)
               \/ Contains(low, <<"nedel">>)
       THEN Some(DEADLINE_WEEKS)
       ELSE IF Contains(low, <<"mesyac">>) THEN Some(DEADLINE_MONTH)
       ELSE IF Contains(low, <<"ne", " ", "gor">>) THEN Some(DEADLINE_RELAXED)
       ELSE IF value \in ALLOWED_DEADLINE THEN Some(value)
       ELSE None

\* A plausible slip: the reply is taken for the phone method whatever it says.
_normalize_contact_phone_first(value) ==
    LET low == lower(value)
    IN IF Contains(low, <<"telefon">>) \/ Contains(low, <<"zvon">>)
          \/ Contains(low, <<"telegram">>)
       THEN Some(CONTACT_PHONE)
       ELSE IF Contains(low, <<"so", "zvon">>) THEN Some(CONTACT_CALL)
       ELSE IF value \in ALLOWED_CONTACT THEN Some(value)
       ELSE None

\* _normalize_contact
_normalize_contact(value) ==
    LET low == lower(value)
    IN IF Contains(low, <<"telegram">>) THEN Some(CONTACT_TELEGRAM)
       ELSE IF Contains(low, <<"telefon">>) \/ Contains(low, <<"zvon">>)
       THEN Some(CONTACT_PHONE)
       ELSE IF Contains(low, <<"so", "zvon">>) THEN Some(CONTACT_CALL)
       ELSE IF value \in ALLOWED_CONTACT THEN Some(value)
       ELSE None

\* The character classes of the phone pattern: \d and [\d\-\s\(\)]
IsDigit(ch) == ch \in Digits
IsPhoneMid(ch) == ch \in Digits \cup {"-", " ", "(", ")"}

\* The ends e of a match whose first digit is at d: a digit, with at least 8
\* characters of the middle class between d and e.
PhoneEnds(x, d) ==
    { e \in (d + 9)..Len(x) :
         /\ IsDigit(x[e])
         /\ \A k \in (d + 1)..(e - 1) : IsPhoneMid(x[k]) }

\* The position of the first digit of a match starting at s ("+" optional).
PhoneFirstDigit(x, s) == IF x[s] = "+" THEN s + 1 ELSE s

PhoneStarts(x) ==
    { s \in 1..Len(x) :
         LET d == PhoneFirstDigit(x, s)
         IN d <= Len(x) /\ IsDigit(x[d]) /\ PhoneEnds(x, d) # {} }

Min(S) == CHOOSE m \in S : \A n \in S : m <= n
Max(S) == CHOOSE m \in S : \A n \in S : m >= n

\* A plausible slip: any digit run is taken, however short.
_extract_phone_lax(value) ==
    IF \E i \in DOMAIN value : IsDigit(value[i]) THEN Some(value) ELSE None

\* _extract_phone: re.search(r"(\+?\d[\d\-\s\(\)]{8,}\d)", value), leftmost
\* start and greedy end; the text is one character per token wherever it
\* holds digits or separators.
_extract_phone(value) ==
    IF PhoneStarts(value) = {} THEN None
    ELSE LET s == Min(PhoneStarts(value))
             e == Max(PhoneEnds(value, PhoneFirstDigit(value, s)))
         IN Some(strip(SubSeq(value, s, e)))

\* _intent_to_need
_intent_to_need(intent) ==
    CASE intent = "bot" -> NEED_BOT
      [] intent = "site" -> NEED_SITE
      [] intent = "automation" -> NEED_AUTOMATION
      [] OTHER -> NEED_OTHER

\* A plausible slip: the patterns are matched against the text as typed.
_rule_based_risk_case_sensitive(text) ==
    LET low == text
    IN IF AnyIn(HUMAN_REQUEST_PATTERNS, low)
       THEN Some([ need_human |-> TRUE, negative |-> FALSE, urgency |-> "high",
                   reason |-> "operator", confidence |-> 95 ])
       ELSE IF AnyIn(NEGATIVE_HARD_PATTERNS, low) \/ AnyIn(PROFANITY_PATTERNS, low)
       THEN Some([ need_human |-> TRUE, negative |-> TRUE, urgency |-> "high",
                   reason |-> "negative", confidence |-> 90 ])
       ELSE IF AnyIn(NEGATIVE_SOFT_PATTERNS, low)
       THEN Some([ need_human |-> FALSE, negative |-> TRUE, urgency |-> "medium",
                   reason |-> "soft", confidence |-> 55 ])
       ELSE None

\* A plausible slip: the soft tier is given the threshold confidence.
_rule_based_risk_soft_confident(text) ==
    LET low == lower(text)
    IN IF AnyIn(HUMAN_REQUEST_PATTERNS, low)
       THEN Some([ need_human |-> TRUE, negative |-> FALSE, urgency |-> "high",
                   reason |-> "operator", confidence |-> 95 ])
       ELSE IF AnyIn(NEGATIVE_HARD_PATTERNS, low) \/ AnyIn(PROFANITY_PATTERNS, low)
       THEN Some([ need_human |-> TRUE, negative |-> TRUE, urgency |-> "high",
                   reason |-> "negative", confidence |-> 90 ])
       ELSE IF AnyIn(NEGATIVE_SOFT_PATTERNS, low)
       THEN Some([ need_human |-> FALSE, negative |-> TRUE, urgency |-> "medium",
                   reason |-> "soft", confidence |-> 60 ])
       ELSE None

\* _rule_based_risk: the first matching tier; None when no tier matches.
\* Confidence is in hundredths.
_rule_based_risk(text) ==
    LET low == lower(text)
    IN IF AnyIn(HUMAN_REQUEST_PATTERNS, low)
       THEN Some([ need_human |-> TRUE, negative |-> FALSE, urgency |-> "high",
                   reason |-> "operator", confidence |-> 95 ])
       ELSE IF AnyIn(NEGATIVE_HARD_PATTERNS, low) \/ AnyIn(PROFANITY_PATTERNS, low)
       THEN Some([ need_human |-> TRUE, negative |-> TRUE, urgency |-> "high",
                   reason |-> "negative", confidence |-> 90 ])
       ELSE IF AnyIn(NEGATIVE_SOFT_PATTERNS, low)
       THEN Some([ need_human |-> FALSE, negative |-> TRUE, urgency |-> "medium",
                   reason |-> "soft", confidence |-> 55 ])
       ELSE None

\* A plausible slip: a negative verdict counts only above the threshold.
_should_critical_escalate_above(risk) ==
    \/ risk.need_human
    \/ risk.urgency = "high"
    \/ (risk.negative /\ risk.confidence > 60)

\* _should_critical_escalate
_should_critical_escalate(risk) ==
    \/ risk.need_human
    \/ risk.urgency = "high"
    \/ (risk.negative /\ risk.confidence >= 60)

\* A plausible slip: the phone is asked for whenever the contact method is
\* the phone, known or not.
_next_step_ignoring_phone(lead) ==
    IF ~Truthy(lead.need) THEN STEP_NEED
    ELSE IF ~Truthy(lead.budget) THEN STEP_BUDGET
    ELSE IF ~Truthy(lead.deadline) THEN STEP_DEADLINE
    ELSE IF ~Truthy(lead.contact_method) THEN STEP_CONTACT_METHOD
    ELSE IF lead.contact_method = Some(CONTACT_PHONE) THEN STEP_PHONE
    ELSE IF lead.contact_method = Some(CONTACT_CALL) /\ ~Truthy(lead.call_time)
    THEN STEP_CALL_TIME
    ELSE STEP_DONE

\* A plausible slip: the lead is finished once a contact method is chosen.
_next_step_without_contact_details(lead) ==
    IF ~Truthy(lead.need) THEN STEP_NEED
    ELSE IF ~Truthy(lead.budget) THEN STEP_BUDGET
    ELSE IF ~Truthy(lead.deadline) THEN STEP_DEADLINE
    ELSE IF ~Truthy(lead.contact_method) THEN STEP_CONTACT_METHOD
    ELSE STEP_DONE

\* _next_step
_next_step(lead) ==
    IF ~Truthy(lead.need) THEN STEP_NEED
    ELSE IF ~Truthy(lead.budget) THEN STEP_BUDGET
    ELSE IF ~Truthy(lead.deadline) THEN STEP_DEADLINE
    ELSE IF ~Truthy(lead.contact_method) THEN STEP_CONTACT_METHOD
    ELSE IF lead.contact_method = Some(CONTACT_PHONE) /\ ~Truthy(lead.phone)
    THEN STEP_PHONE
    ELSE IF lead.contact_method = Some(CONTACT_CALL) /\ ~Truthy(lead.call_time)
    THEN STEP_CALL_TIME
    ELSE STEP_DONE

----------------------------------------------------------------------------
(* The LLM adapter (app/rag/llm.py) and retrieval (app/rag/store.py).      *)
(* A provider reply is [kind |-> "raise"] (the call raised),               *)
(* [kind |-> "text"] (output holding no JSON object) or                    *)
(* [kind |-> "json", obj |-> o], o a function from keys to JSON values.    *)
(* A JSON value carries its type: bool, num (hundredths), str (a word),    *)
(* text (a token sequence) or null.                                        *)

JBool(b) == [ t |-> "bool", v |-> b ]
JNum(n) == [ t |-> "num", v |-> n ]
JStr(s) == [ t |-> "str", v |-> s ]
JText(s) == [ t |-> "text", v |-> s ]
JNull == [ t |-> "null" ]

NoReply == [ kind |-> "none" ]
Raises == [ kind |-> "raise" ]
NotJson == [ kind |-> "text" ]
Json(o) == [ kind |-> "json", obj |-> o ]

\* dict.get(key, default)
Get(obj, key, default) == IF key \in DOMAIN obj THEN obj[key] ELSE default

\* bool(x)
pyBool(j) ==
    CASE j.t = "bool" -> j.v
      [] j.t = "num" -> j.v # 0
      [] j.t = "str" -> j.v # ""
      [] j.t = "text" -> j.v # <<>>
      [] OTHER -> FALSE

\* float(x or 0.0): a word that is not a number raises ValueError
pyFloat(j) ==
    IF ~pyBool(j) THEN [ raised |-> FALSE, v |-> 0 ]
    ELSE CASE j.t = "num" -> [ raised |-> FALSE, v |-> j.v ]
           [] j.t = "bool" -> [ raised |-> FALSE, v |-> 100 ]
           [] OTHER -> [ raised |-> TRUE, v |-> 0 ]

\* str(x) of a value used as a word
pyStr(j) ==
    CASE j.t = "str" -> j.v
      [] j.t = "null" -> "None"
      [] j.t = "bool" -> IF j.v THEN "True" ELSE "False"
      [] OTHER -> "?"

\* str.lower on the words the provider may return
StrLower(s) ==
    CASE s = "HIGH" -> "high"
      [] s = "BOT" -> "bot"
      [] OTHER -> s

\* _call_json with _extract_json_object: the default when the provider is
\* not configured, the call raises, or no non-empty JSON object is found.
_call_json(cfg, reply, default) ==
    IF ~cfg.openai_api_key THEN default
    ELSE IF reply.kind = "raise" THEN default
    ELSE IF reply.kind # "json" THEN default
    ELSE IF DOMAIN reply.obj = {} THEN default
    ELSE reply.obj

\* classify_risk: [raised, risk]
classify_risk(cfg, reply) ==
    LET default == [ need_human |-> JBool(FALSE), negative |-> JBool(FALSE),
                     urgency |-> JStr("low"), reason |-> JStr("fallback"),
                     confidence |-> JNum(0) ]
        result == _call_json(cfg, reply, default)
        u == pyStr(Get(result, "urgency", JStr("low")))
        urgency == IF StrLower(u) \in {"low", "medium", "high"}
                   THEN StrLower(u) ELSE "low"
        conf == pyFloat(Get(result, "confidence", JNum(0)))
    IN [ raised |-> conf.raised,
         risk |-> [ need_human |-> pyBool(Get(result, "need_human", JBool(FALSE))),
                    negative |-> pyBool(Get(result, "negative", JBool(FALSE))),
                    urgency |-> urgency,
                    reason |-> pyStr(Get(result, "reason", JStr(""))),
                    confidence |-> conf.v ] ]

\* classify_intent: [raised, intent]
classify_intent(cfg, reply) ==
    LET default == [ intent |-> JStr("unknown"), confidence |-> JNum(0),
                     reason |-> JStr("fallback") ]
        result == _call_json(cfg, reply, default)
        i == StrLower(pyStr(Get(result, "intent", JStr("unknown"))))
        conf == pyFloat(Get(result, "confidence", JNum(0)))
    IN [ raised |-> conf.raised,
         intent |-> IF i \in {"bot", "site", "automation", "other", "unknown"}
                    THEN i ELSE "unknown" ]

\* _none_or_str on a field of the extraction reply
_none_or_str(j) ==
    CASE j.t = "null" -> None
      [] j.t = "text" -> IF strip(j.v) = <<>> THEN None ELSE Some(strip(j.v))
      [] OTHER -> Some(<<pyStr(j)>>)

\* extract_lead_fields
extract_lead_fields(cfg, reply) ==
    LET default == [ need |-> JNull, budget |-> JNull, timeline |-> JNull,
                     contact_method |-> JNull, phone |-> JNull ]
        result == _call_json(cfg, reply, default)
    IN [ need |-> _none_or_str(Get(result, "need", JNull)),
         budget |-> _none_or_str(Get(result, "budget", JNull)),
         timeline |-> _none_or_str(Get(result, "timeline", JNull)),
         contact_method |-> _none_or_str(Get(result, "contact_method", JNull)),
         phone |-> _none_or_str(Get(result, "phone", JNull)) ]

RECURSIVE _unique_urls(_)
\* _unique_urls: first occurrence wins, order kept, blank urls dropped
_unique_urls(urls) ==
    IF urls = <<>> THEN <<>>
    ELSE LET init == _unique_urls(SubSeq(urls, 1, Len(urls) - 1))
             u == urls[Len(urls)]
         IN IF u = "" \/ \E k \in DOMAIN init : init[k] = u
            THEN init ELSE Append(init, u)

\* A plausible slip: the provider is asked even when nothing was retrieved.
generate_answer_asking_anyway(cfg, chunks, reply) ==
    IF ~cfg.openai_api_key
    THEN [ body |-> "ai_unavailable", sources |-> <<>>, called |-> FALSE ]
    ELSE IF reply.kind = "raise"
    THEN [ body |-> "clarify_do", sources |-> <<>>, called |-> TRUE ]
    ELSE [ body |-> IF reply.text = "" THEN "clarify_do" ELSE reply.text,
           sources |-> _unique_urls([k \in DOMAIN chunks |-> chunks[k].source_url]),
           called |-> TRUE ]

\* generate_answer: the answer sent, as [body, sources, called].  The
\* provider reply is "raise", or [kind |-> "completion", text |-> t] where t
\* is "" for an output_text that is None, empty or blank.  The code holds
\* three fallback texts: "ai_unavailable" (no key), "clarify" (no chunks:
\* "... chto imenno vy khotite: ...", also the text of _handle_rag_entry) and
\* "clarify_do" (the call raised or the completion is empty:
\* "... chto imenno khotite sdelat: ...").  `called` tells whether
\* client.responses.create was awaited.
generate_answer(cfg, chunks, reply) ==
    IF ~cfg.openai_api_key
    THEN [ body |-> "ai_unavailable", sources |-> <<>>, called |-> FALSE ]
    ELSE IF chunks = <<>>
    THEN [ body |-> "clarify", sources |-> <<>>, called |-> FALSE ]
    ELSE IF reply.kind = "raise"
    THEN [ body |-> "clarify_do", sources |-> <<>>, called |-> TRUE ]
    ELSE [ body |-> IF reply.text = "" THEN "clarify_do" ELSE reply.text,
           sources |-> _unique_urls([k \in DOMAIN chunks |-> chunks[k].source_url]),
           called |-> TRUE ]

\* RAGStore.search: [raised, chunks].  `found` is what the store holds for
\* the query: "raise" (the embedding call or the query raised),
\* "no_table" (UndefinedTableError) or the rows.
rag_search(cfg, query, found) ==
    IF strip(query) = <<>> \/ ~cfg.openai_api_key
    THEN [ raised |-> FALSE, chunks |-> <<>> ]
    ELSE IF found.kind = "raise" THEN [ raised |-> TRUE, chunks |-> <<>> ]
    ELSE IF found.kind = "no_table" THEN [ raised |-> FALSE, chunks |-> <<>> ]
    ELSE [ raised |-> FALSE, chunks |-> found.rows ]

\* A plausible slip: the saved admin chat is tried before the owner's.
resolve_admin_chat_id_saved_first(conn, saved, env_admin) ==
    IF saved # None THEN saved
    ELSE IF conn # None /\ conn[1].owner_user_chat_id # None
    THEN conn[1].owner_user_chat_id
    ELSE env_admin

\* Database.resolve_admin_chat_id
resolve_admin_chat_id(conn, saved, env_admin) ==
    IF conn # None /\ conn[1].owner_user_chat_id # None
    THEN conn[1].owner_user_chat_id
    ELSE IF saved # None THEN saved
    ELSE env_admin

----------------------------------------------------------------------------
(* The business-message handler (app/handlers/business.py).                *)
(* One handling threads a record h through the statements of the code:     *)
(*   ok      FALSE once a statement has raised (the rest is skipped and    *)
(*           the handler's except clause logs it);                         *)
(*   t       the time of the handling; cfg the configuration;              *)
(*   conn, known, lead, esc, saved   the rows of this connection and       *)
(*           client and the saved admin chat id;                           *)
(*   log     what the handling did, in order: messages sent, provider and  *)
(*           store calls, mark_escalation;                                 *)
(*   nsend, failAt   the number of sends so far and the send that raises   *)
(*           (0: none);                                                    *)
(*   path    the branch taken; alert the result of mark_escalation;        *)
(*   step    the step of the lead row the handler read;                    *)
(*   risk    the risk verdict used; escalated the arguments given to       *)
(*           _escalate_to_human.                                           *)

MAX_USER_QUESTION_LEN == 2000

Log(h, e) == IF ~h.ok THEN h ELSE [ h EXCEPT !.log = Append(@, e) ]

\* bot.send_message, also through _send_business_message
Send(h, to, what, kb) ==
    IF ~h.ok THEN h
    ELSE IF h.nsend + 1 = h.failAt
    THEN [ h EXCEPT !.ok = FALSE, !.nsend = @ + 1 ]
    ELSE [ h EXCEPT !.nsend = @ + 1,
                    !.log = Append(@, [ ev |-> "send", to |-> to,
                                        what |-> what, kb |-> kb ]) ]

\* db.update_lead_fields(bcid, client_chat_id, **f)
UpdateLead(h, f) ==
    IF ~h.ok THEN h ELSE [ h EXCEPT !.lead = update_lead_fields(@, f, h.t) ]

Raise(h) == [ h EXCEPT !.ok = FALSE ]

AdminOf(h) == resolve_admin_chat_id(h.conn, h.saved, h.cfg.admin_chat_id)

\* _ensure_connection_info: `fetched` is what bot.get_business_connection
\* gives, "raise" or the connection.
_ensure_connection_info(h, fetched) ==
    IF h.conn # None THEN h
    ELSE IF fetched.kind = "raise" THEN h
    ELSE [ h EXCEPT !.conn = Some([ owner_user_chat_id |-> fetched.user_chat_id,
                                    can_reply |-> fetched.can_reply ]) ]

_notify_new_client(h) ==
    IF AdminOf(h) = None THEN h ELSE Send(h, "admin", "new_client", "none")

\* A plausible slip: the client is told too.
_notify_cannot_reply_telling_client(h) ==
    LET h1 == IF AdminOf(h) = None THEN h
              ELSE Send(h, "admin", "cannot_reply", "none")
    IN Send(h1, "client", "cannot_reply", "none")

_notify_cannot_reply(h) ==
    IF AdminOf(h) = None THEN h ELSE Send(h, "admin", "cannot_reply", "none")

\* A plausible slip: the alert is sent whatever mark_escalation returned.
_escalate_to_human_unconditional(h, text, reason, urgency, need_human, negative) ==
    LET h1 == Send([ h EXCEPT !.escalated =
                        Some([ reason |-> reason, urgency |-> urgency,
                               need_human |-> need_human, negative |-> negative ]) ],
                   "client", "ack", "remove")
        a == [ reason |-> IF reason = "" THEN "default" ELSE reason,
               urgency |-> IF urgency = "" THEN "high" ELSE urgency,
               last_message |-> text ]
        r == mark_escalation(h1.lead, h1.esc, h1.t, a, CooldownMinutes)
        h2 == IF ~h1.ok THEN h1
              ELSE [ h1 EXCEPT !.lead = r.lead, !.esc = r.esc,
                               !.alert = Some(r.should_alert),
                               !.log = Append(@, [ ev |-> "mark_escalation",
                                                   should_alert |-> r.should_alert ]) ]
    IN IF ~h2.ok THEN h2
       ELSE IF AdminOf(h2) = None THEN h2
       ELSE Send(h2, "admin", "alert", "none")

\* A plausible slip: the stamp of the check is taken back when the alert has
\* no destination.
_escalate_to_human_stamping_on_delivery(h, text, reason, urgency, need_human, negative) ==
    LET h1 == Send([ h EXCEPT !.escalated =
                        Some([ reason |-> reason, urgency |-> urgency,
                               need_human |-> need_human, negative |-> negative ]) ],
                   "client", "ack", "remove")
        a == [ reason |-> IF reason = "" THEN "default" ELSE reason,
               urgency |-> IF urgency = "" THEN "high" ELSE urgency,
               last_message |-> text ]
        r == mark_escalation(h1.lead, h1.esc, h1.t, a, CooldownMinutes)
        before == IF h1.esc = None THEN None ELSE h1.esc[1].last_alert_at
        h2 == IF ~h1.ok THEN h1
              ELSE [ h1 EXCEPT !.lead = r.lead, !.esc = r.esc,
                               !.alert = Some(r.should_alert),
                               !.log = Append(@, [ ev |-> "mark_escalation",
                                                   should_alert |-> r.should_alert ]) ]
    IN IF ~h2.ok \/ ~r.should_alert THEN h2
       ELSE IF AdminOf(h2) = None
       THEN [ h2 EXCEPT !.esc = Some([ r.esc[1] EXCEPT !.last_alert_at = before ]) ]
       ELSE Send(h2, "admin", "alert", "none")

\* _escalate_to_human
_escalate_to_human(h, text, reason, urgency, need_human, negative) ==
    LET h1 == Send([ h EXCEPT !.escalated =
                        Some([ reason |-> reason, urgency |-> urgency,
                               need_human |-> need_human, negative |-> negative ]) ],
                   "client", "ack", "remove")
        a == [ reason |-> IF reason = "" THEN "default" ELSE reason,
               urgency |-> IF urgency = "" THEN "high" ELSE urgency,
               last_message |-> text ]
        r == mark_escalation(h1.lead, h1.esc, h1.t, a, CooldownMinutes)
        h2 == IF ~h1.ok THEN h1
              ELSE [ h1 EXCEPT !.lead = r.lead, !.esc = r.esc,
                               !.alert = Some(r.should_alert),
                               !.log = Append(@, [ ev |-> "mark_escalation",
                                                   should_alert |-> r.should_alert ]) ]
    IN IF ~h2.ok \/ ~r.should_alert THEN h2
       ELSE IF AdminOf(h2) = None THEN h2
       ELSE Send(h2, "admin", "alert", "none")

\* A plausible slip: the client is thanked once for the summary and once
\* more at the end.
_finalize_lead_thanking_twice(h) ==
    IF ~h.ok \/ h.lead = None THEN h
    ELSE LET lead == h.lead[1]
             sources == IF lead.rag_sources_json # None
                        THEN json_loads(lead.rag_sources_json[1]) ELSE <<>>
             summary_data == [ need |-> lead.need, budget |-> lead.budget,
                               timeline |-> lead.deadline,
                               contact_method |-> lead.contact_method,
                               phone |-> lead.phone, call_time |-> lead.call_time,
                               last_client_message |-> lead.last_client_message,
                               sources |-> sources ]
             h1 == UpdateLead(h, [ NoFields EXCEPT !.summary = Some(summary_data) ])
             h2 == IF AdminOf(h1) # None
                   THEN Send(Send(h1, "admin", "summary", "none"),
                             "client", "thanks", "remove")
                   ELSE h1
             h3 == IF ~h2.ok THEN h2
                   ELSE [ h2 EXCEPT !.esc = close_escalation_row(@),
                                    !.lead = close_escalation_lead(@, h2.t) ]
         IN Send(h3, "client", "thanks", "remove")

\* _finalize_lead
_finalize_lead(h) ==
    IF ~h.ok \/ h.lead = None THEN h
    ELSE LET lead == h.lead[1]
             sources == IF lead.rag_sources_json # None
                        THEN json_loads(lead.rag_sources_json[1]) ELSE <<>>
             summary_data == [ need |-> lead.need, budget |-> lead.budget,
                               timeline |-> lead.deadline,
                               contact_method |-> lead.contact_method,
                               phone |-> lead.phone, call_time |-> lead.call_time,
                               last_client_message |-> lead.last_client_message,
                               sources |-> sources ]
             h1 == UpdateLead(h, [ NoFields EXCEPT !.summary = Some(summary_data) ])
             h2 == IF AdminOf(h1) # None
                   THEN Send(h1, "admin", "summary", "none") ELSE h1
             h3 == IF ~h2.ok THEN h2
                   ELSE [ h2 EXCEPT !.esc = close_escalation_row(@),
                                    !.lead = close_escalation_lead(@, h2.t) ]
         IN Send(h3, "client", "thanks", "remove")

\* A plausible slip: a proposal is taken whether the field is set or not.
_apply_extracted_fields_overwriting(h, extracted) ==
    IF ~h.ok \/ h.lead = None THEN h
    ELSE LET Norm(key, f(_)) ==
                 IF Truthy(extracted[key]) THEN f(extracted[key][1]) ELSE None
             need == Norm("need", _normalize_need)
             budget == Norm("budget", _normalize_budget)
             deadline == Norm("timeline", _normalize_deadline)
             contact == Norm("contact_method", _normalize_contact)
             phone == Norm("phone", _extract_phone)
         IN IF need = None /\ budget = None /\ deadline = None
               /\ contact = None /\ phone = None
            THEN h
            ELSE UpdateLead(h, [ NoFields EXCEPT !.need = need, !.budget = budget,
                                                 !.deadline = deadline,
                                                 !.contact_method = contact,
                                                 !.phone = phone ])

\* _apply_extracted_fields
_apply_extracted_fields(h, extracted) ==
    IF ~h.ok \/ h.lead = None THEN h
    ELSE LET lead == h.lead[1]
             Norm(col, key, f(_)) ==
                 IF ~Truthy(lead[col]) /\ Truthy(extracted[key])
                 THEN f(extracted[key][1]) ELSE None
             need == Norm("need", "need", _normalize_need)
             budget == Norm("budget", "budget", _normalize_budget)
             deadline == Norm("deadline", "timeline", _normalize_deadline)
             contact == Norm("contact_method", "contact_method", _normalize_contact)
             phone == Norm("phone", "phone", _extract_phone)
         IN IF need = None /\ budget = None /\ deadline = None
               /\ contact = None /\ phone = None
            THEN h
            ELSE UpdateLead(h, [ NoFields EXCEPT !.need = need, !.budget = budget,
                                                 !.deadline = deadline,
                                                 !.contact_method = contact,
                                                 !.phone = phone ])

\* The prompt and keyboard sent for a step still to be asked.
PromptOf(step) ==
    CASE step = STEP_NEED -> [ what |-> "ask_need", kb |-> "need" ]
      [] step = STEP_BUDGET -> [ what |-> "ask_budget", kb |-> "budget" ]
      [] step = STEP_DEADLINE -> [ what |-> "ask_deadline", kb |-> "deadline" ]
      [] step = STEP_CONTACT_METHOD -> [ what |-> "ask_contact", kb |-> "contact" ]
      [] step = STEP_PHONE -> [ what |-> "ask_phone", kb |-> "remove" ]
      [] OTHER -> [ what |-> "ask_call_time", kb |-> "remove" ]

\* _advance_or_ask_next(lead): `lead` is the row read just before the call;
\* e.intent is the provider's reply to classify_intent.
_advance_or_ask_next(h, lead, e) ==
    IF ~h.ok THEN h
    ELSE LET next_step == _next_step(lead)
         IN IF next_step = STEP_DONE
            THEN _finalize_lead(
                     UpdateLead(h, [ NoFields EXCEPT !.step = Some(STEP_DONE) ]))
            ELSE LET h1 == UpdateLead(h, [ NoFields EXCEPT !.step = Some(next_step) ])
                 IN IF next_step = STEP_NEED
                    THEN LET r == classify_intent(h.cfg, e.intent)
                             h2 == Log(h1, [ ev |-> "classify_intent" ])
                         IN IF r.raised THEN Raise(h2)
                            ELSE IF r.intent \in {"bot", "site", "automation", "other"}
                            THEN Send(UpdateLead(h2,
                                        [ NoFields EXCEPT
                                            !.need = Some(_intent_to_need(r.intent)),
                                            !.step = Some(STEP_BUDGET) ]),
                                      "client", "ask_budget", "budget")
                            ELSE Send(h2, "client", "ask_need", "need")
                    ELSE Send(h1, "client", PromptOf(next_step).what,
                              PromptOf(next_step).kb)

\* extract_lead_fields, _apply_extracted_fields, get_lead, _advance_or_ask_next:
\* the common tail of the dialog and of the answered question.
ExtractAndAdvance(h, e) ==
    LET h1 == Log(h, [ ev |-> "extract_lead_fields" ])
        h2 == _apply_extracted_fields(h1, extract_lead_fields(h.cfg, e.extract))
    IN IF ~h2.ok \/ h2.lead = None THEN h2
       ELSE _advance_or_ask_next(h2, h2.lead[1], e)

\* A plausible slip: a reply that does not normalize is stored as typed.
_handle_lead_dialog_storing_raw(h, client_text, step, e) ==
    LET h1 == UpdateLead(h, [ NoFields EXCEPT
                                !.last_client_message = Some(client_text) ])
        Or(v) == IF v = None THEN Some(client_text) ELSE v
        f == CASE step = STEP_NEED ->
                    [ NoFields EXCEPT !.need = Or(_normalize_need(client_text)) ]
               [] step = STEP_BUDGET ->
                    [ NoFields EXCEPT !.budget = Or(_normalize_budget(client_text)) ]
               [] step = STEP_DEADLINE ->
                    [ NoFields EXCEPT !.deadline = Or(_normalize_deadline(client_text)) ]
               [] step = STEP_CONTACT_METHOD ->
                    [ NoFields EXCEPT
                        !.contact_method = Or(_normalize_contact(client_text)) ]
               [] step = STEP_PHONE ->
                    [ NoFields EXCEPT !.phone = Or(_extract_phone(client_text)) ]
               [] step = STEP_CALL_TIME ->
                    [ NoFields EXCEPT !.call_time = Some(client_text) ]
               [] OTHER -> NoFields
    IN ExtractAndAdvance(UpdateLead(h1, f), e)

\* A plausible slip: a reply that does not normalize starts the dialog over.
_handle_lead_dialog_starting_over(h, client_text, step, e) ==
    LET h1 == UpdateLead(h, [ NoFields EXCEPT
                                !.last_client_message = Some(client_text) ])
        f == CASE step = STEP_NEED ->
                    [ NoFields EXCEPT !.need = _normalize_need(client_text) ]
               [] step = STEP_BUDGET ->
                    [ NoFields EXCEPT !.budget = _normalize_budget(client_text) ]
               [] step = STEP_DEADLINE ->
                    [ NoFields EXCEPT !.deadline = _normalize_deadline(client_text) ]
               [] step = STEP_CONTACT_METHOD ->
                    [ NoFields EXCEPT !.contact_method = _normalize_contact(client_text) ]
               [] step = STEP_PHONE ->
                    [ NoFields EXCEPT !.phone = _extract_phone(client_text) ]
               [] step = STEP_CALL_TIME ->
                    [ NoFields EXCEPT !.call_time = Some(client_text) ]
               [] OTHER -> NoFields
    IN IF f = NoFields
       THEN Send(UpdateLead(h1, [ NoFields EXCEPT !.step = Some(STEP_NEED) ]),
                 "client", "ask_need", "need")
       ELSE ExtractAndAdvance(UpdateLead(h1, f), e)

\* _handle_lead_dialog(client_text, lead): `step` is lead.step of the row the
\* handler read.
_handle_lead_dialog(h, client_text, step, e) ==
    LET h1 == UpdateLead(h, [ NoFields EXCEPT
                                !.last_client_message = Some(client_text) ])
        f == CASE step = STEP_NEED ->
                    [ NoFields EXCEPT !.need = _normalize_need(client_text) ]
               [] step = STEP_BUDGET ->
                    [ NoFields EXCEPT !.budget = _normalize_budget(client_text) ]
               [] step = STEP_DEADLINE ->
                    [ NoFields EXCEPT !.deadline = _normalize_deadline(client_text) ]
               [] step = STEP_CONTACT_METHOD ->
                    [ NoFields EXCEPT !.contact_method = _normalize_contact(client_text) ]
               [] step = STEP_PHONE ->
                    [ NoFields EXCEPT !.phone = _extract_phone(client_text) ]
               [] step = STEP_CALL_TIME ->
                    [ NoFields EXCEPT !.call_time = Some(client_text) ]
               [] OTHER -> NoFields
        h2 == IF f = NoFields THEN h1 ELSE UpdateLead(h1, f)
    IN ExtractAndAdvance(h2, e)

\* _handle_rag_entry: e.search is what the store holds for the question,
\* e.answer the provider's completion.
_handle_rag_entry(h, client_text, e) ==
    LET question == SubSeq(client_text, 1, Min({Len(client_text), MAX_USER_QUESTION_LEN}))
        r == rag_search(h.cfg, question, e.search)
        h1 == Log(h, [ ev |-> "search" ])
    IN IF r.raised THEN Raise(h1)
       ELSE IF r.chunks = <<>>
       THEN UpdateLead(Send(h1, "client", "clarify", "need"),
                       [ NoFields EXCEPT !.step = Some(STEP_NEED),
                                         !.last_client_message = Some(question),
                                         !.rag_sources = Some(<<>>) ])
       ELSE LET answer == generate_answer(h.cfg, r.chunks, e.answer)
                source_urls == _unique_urls([ k \in DOMAIN r.chunks |->
                                                r.chunks[k].source_url ])
                h2 == Send(Log(h1, [ ev |-> "generate_answer" ]), "client",
                           [ body |-> answer.body, sources |-> answer.sources ],
                           "need")
                h3 == UpdateLead(h2, [ NoFields EXCEPT
                                         !.step = Some(STEP_NEED),
                                         !.last_client_message = Some(question),
                                         !.rag_sources = Some(source_urls) ])
            IN ExtractAndAdvance(h3, e)

\* The collected fields of a lead row.
CoreOf(lead) ==
    [ step |-> lead.step, need |-> lead.need, budget |-> lead.budget,
      deadline |-> lead.deadline, contact_method |-> lead.contact_method,
      phone |-> lead.phone, call_time |-> lead.call_time ]

\* on_business_message: the body of the try block.  `raw` is
\* message.text or message.caption or "".
on_business_message(h0, raw, e) ==
    LET text == IF strip(raw) = <<>> THEN TEXT_NON_MESSAGE ELSE strip(raw)
        question == SubSeq(text, 1, Min({Len(text), MAX_USER_QUESTION_LEN}))
        h1 == _ensure_connection_info(h0, e.fetched)
        h2 == [ h1 EXCEPT !.known = TRUE ]
        h3 == IF ~h1.known THEN _notify_new_client(h2) ELSE h2
    IN IF ~h3.ok THEN h3
       ELSE IF h3.conn = None \/ ~h3.conn[1].can_reply
       THEN [ _notify_cannot_reply(h3) EXCEPT !.path = "blocked" ]
       ELSE
       LET h4 == IF h3.lead = None
                 THEN [ h3 EXCEPT !.lead = create_or_reset_lead(@, h3.t) ] ELSE h3
           lead == h4.lead[1]
           h5 == UpdateLead([ h4 EXCEPT !.step = Some(lead.step) ],
                            [ NoFields EXCEPT
                                !.last_client_message = Some(question) ])
       IN IF question = MANAGER_BUTTON
          THEN [ _escalate_to_human(h5, question, "button", "high", TRUE, FALSE)
                    EXCEPT !.path = "escalate" ]
          ELSE
          LET rule == _rule_based_risk(question)
              llm == classify_risk(h0.cfg, e.risk)
              risk == IF rule # None THEN rule[1] ELSE llm.risk
              h6 == IF rule = None
                    THEN Log([ h5 EXCEPT !.risk = IF llm.raised THEN None
                                                  ELSE Some(risk) ],
                             [ ev |-> "classify_risk" ])
                    ELSE [ h5 EXCEPT !.risk = Some(risk) ]
          IN IF rule = None /\ llm.raised THEN [ Raise(h6) EXCEPT !.path = "risk" ]
             ELSE IF _should_critical_escalate(risk)
             THEN [ _escalate_to_human(h6, question, risk.reason, risk.urgency,
                                       risk.need_human, risk.negative)
                       EXCEPT !.path = "escalate" ]
             ELSE
             LET h7 == IF risk.negative /\ risk.urgency = "medium"
                       THEN Send(h6, "client", "soft_note", "need") ELSE h6
                 h8 == IF h7.ok /\ lead.step = STEP_DONE
                       THEN [ h7 EXCEPT !.lead = create_or_reset_lead(@, h7.t) ]
                       ELSE h7
                 step == IF lead.step = STEP_DONE THEN STEP_WELCOME ELSE lead.step
             IN IF 0 < step /\ step < STEP_DONE
                THEN [ _handle_lead_dialog(h8, question, step, e)
                          EXCEPT !.path = "dialog" ]
                ELSE [ _handle_rag_entry(h8, question, e) EXCEPT !.path = "rag" ]

----------------------------------------------------------------------------
(* The bot as a whole: business connections, private messages of the       *)
(* admin, business messages of a client, and the clock.                    *)

T_HUMAN_UPPER == <<"MENEDZHER">>
T_HELLO == <<"privet">>
T_PHONE == <<"+", "7", "9", "0", "0", "1", "2", "3", "4", "5", "6", "7">>

\* What the client may send: the escalate control, a request for a human
\* in upper case, a free text, and menu options and a phone number.
EscalationTexts == { MANAGER_BUTTON, T_HUMAN_UPPER }
FreeTexts == { T_HELLO }
DialogTexts ==
    { NEED_BOT, BUDGET_30_80, DEADLINE_RELAXED, CONTACT_TELEGRAM, CONTACT_PHONE,
      CONTACT_CALL, T_PHONE }
RawTexts == EscalationTexts \cup FreeTexts \cup DialogTexts

RiskReplies ==
    { NotJson,
      Json([ need_human |-> JBool(TRUE), negative |-> JBool(FALSE),
             urgency |-> JStr("HIGH"), reason |-> JStr("llm"),
             confidence |-> JNum(90) ]) }

ExtractReplies ==
    { Raises,
      Json([ need |-> JNull, budget |-> JNull, timeline |-> JNull,
             contact_method |-> JNull, phone |-> JText(T_PHONE) ]) }

IntentReplies ==
    { NotJson, Json([ intent |-> JStr("BOT"), confidence |-> JNum(90) ]) }

AnswerReplies ==
    { Raises, [ kind |-> "completion", text |-> "answer" ] }

SearchResults ==
    { Raises, [ kind |-> "no_table" ],
      [ kind |-> "rows", rows |-> << [ source_url |-> "u1" ],
                                     [ source_url |-> "u2" ],
                                     [ source_url |-> "u1" ] >> ] }

FetchResults ==
    { Raises,
      [ kind |-> "connection", can_reply |-> TRUE, user_chat_id |-> None ] }

\* The external answers one handling of `raw` for client c can consume: a
\* reply is drawn only for a call the handling can reach.  The provider
\* judges a menu option or a phone number neutral (or fails); a free text
\* it may judge critical.
Envs(c, raw) ==
    LET text == IF strip(raw) = <<>> THEN TEXT_NON_MESSAGE ELSE strip(raw)
        llm == config.openai_api_key
        step == IF leads[c] = None THEN STEP_WELCOME ELSE leads[c][1].step
        asksRisk == llm /\ text # MANAGER_BUTTON /\ _rule_based_risk(text) = None
        escalates(r) ==
            \/ text = MANAGER_BUTTON
            \/ ( _rule_based_risk(text) # None
                 /\ _should_critical_escalate(_rule_based_risk(text)[1]) )
            \/ ( asksRisk /\ ~classify_risk(config, r).raised
                 /\ _should_critical_escalate(classify_risk(config, r).risk) )
        rag == step \in {STEP_WELCOME, STEP_DONE}
        needKnown == leads[c] # None /\ step # STEP_DONE /\ Truthy(leads[c][1].need)
        Fetches == IF connections = None THEN FetchResults ELSE {NoReply}
        Intents == IF llm /\ ~needKnown THEN IntentReplies ELSE {NoReply}
        Extracts == IF llm THEN ExtractReplies ELSE {NoReply}
        Env(f, r, s, a, x, i) ==
            [ fetched |-> f, risk |-> r, search |-> s, answer |-> a,
              extract |-> x, intent |-> i ]
    IN UNION {
         IF escalates(r)
         THEN { Env(f, r, NoReply, NoReply, NoReply, NoReply) : f \in Fetches }
         ELSE IF llm /\ rag
         THEN { Env(f, r, s, NoReply, NoReply, NoReply) :
                    f \in Fetches, s \in { x \in SearchResults : x.kind # "rows" } }
              \cup
              { Env(f, r, s, a, x, i) :
                    f \in Fetches, s \in { y \in SearchResults : y.kind = "rows" },
                    a \in AnswerReplies, x \in Extracts, i \in Intents }
         ELSE { Env(f, r, NoReply, NoReply, x, i) :
                    f \in Fetches, x \in Extracts, i \in Intents }
         : r \in IF ~asksRisk THEN {NoReply}
                 ELSE IF text \in FreeTexts THEN RiskReplies ELSE {NotJson} }

\* The configurations the bot is started with.
Deployments ==
    { [ openai_api_key |-> TRUE, admin_chat_id |-> None ],
      [ openai_api_key |-> FALSE, admin_chat_id |-> Some(900) ] }

Init ==
    /\ now = 0
    /\ config \in Deployments
    /\ connections = None
    /\ clients = [ c \in Clients |-> FALSE ]
    /\ leads = [ c \in Clients |-> None ]
    /\ escalations = [ c \in Clients |-> None ]
    /\ settings = None
    /\ calls = [ i \in Procs |-> NoCall ]
    /\ last = NoLast
    /\ lastTrueAt = [ c \in Clients |-> None ]
    /\ kb_chunks = <<>>

\* The business_connection updates received.
ConnectionEvents ==
    { [ can_reply |-> TRUE, user_chat_id |-> Some(501) ],
      [ can_reply |-> FALSE, user_chat_id |-> None ] }

\* Time passes.
Advance ==
    /\ now + CooldownMinutes <= MaxClock
    /\ now' = now + CooldownMinutes
    /\ UNCHANGED <<config, connections, clients, leads, escalations, settings,
                   calls, last, lastTrueAt,
                   kb_chunks>>

\* on_business_connection
OnBusinessConnection(can_reply, user_chat_id) ==
    /\ connections' = Some([ owner_user_chat_id |-> user_chat_id,
                             can_reply |-> can_reply ])
    /\ settings' = IF user_chat_id # None THEN user_chat_id ELSE settings
    /\ UNCHANGED <<now, config, clients, leads, escalations, calls, last,
                   lastTrueAt,
                   kb_chunks>>

\* on_private_message (app/handlers/admin.py)
OnPrivateMessage(chat_id) ==
    /\ settings' = Some(chat_id)
    /\ UNCHANGED <<now, config, connections, clients, leads, escalations, calls,
                   last, lastTrueAt,
                   kb_chunks>>

\* The handler's view of the database at the start of a handling.
Handling(c, failAt) ==
    [ ok |-> TRUE, t |-> now, cfg |-> config, conn |-> connections,
      known |-> clients[c], lead |-> leads[c], esc |-> escalations[c],
      saved |-> settings, log |-> <<>>, nsend |-> 0,
      failAt |-> failAt, path |-> "", alert |-> None, step |-> None,
      risk |-> None, escalated |-> None ]

\* The number of sends of the handling when no send fails.
SendsOf(c, raw, e) == on_business_message(Handling(c, 0), raw, e).nsend

\* What is kept of a handling.
Observed(c, raw, h) ==
    [ op |-> "business_message", client |-> c, raw |-> raw,
      completed |-> h.ok, path |-> h.path, log |-> h.log,
      alert |-> h.alert, admin |-> AdminOf(h), step |-> h.step,
      risk |-> h.risk, escalated |-> h.escalated ]

\* A plausible slip: the escalations row is written without the client in
\* its WHERE clause.
Commit_escalations_of_all(c, h, seen) ==
    /\ connections' = h.conn
    /\ clients' = [clients EXCEPT ![c] = h.known]
    /\ leads' = [leads EXCEPT ![c] = h.lead]
    /\ escalations' = [ d \in Clients |-> h.esc ]
    /\ last' = seen
    /\ UNCHANGED <<now, config, settings, calls, lastTrueAt, kb_chunks>>

\* The rows a handling leaves in the database.
Commit(c, h, seen) ==
    /\ connections' = h.conn
    /\ clients' = [ clients EXCEPT ![c] = h.known ]
    /\ leads' = [ leads EXCEPT ![c] = h.lead ]
    /\ escalations' = [ escalations EXCEPT ![c] = h.esc ]
    /\ last' = seen
    /\ UNCHANGED <<now, config, settings, calls, lastTrueAt,
                   kb_chunks>>

\* on_business_message
OnBusinessMessage(c, raw, e, failAt) ==
    \E h \in { on_business_message(Handling(c, failAt), raw, e) } :
        Commit(c, h, Observed(c, raw, h))

\* A business message with one of `texts`; `failing` tells whether a send
\* of the handling may raise.
MessageStep(c, texts, failing) ==
    \E raw \in texts : \E e \in Envs(c, raw) :
        \E failAt \in IF failing THEN 0..SendsOf(c, raw, e) ELSE {0} :
            OnBusinessMessage(c, raw, e, failAt)

\* The guided dialog: every text, every send delivered, the connection as
\* the first message finds it.
Next == MessageStep("A", RawTexts, FALSE)

Spec == Init /\ [][Next]_vars

\* Escalations and alerts: the clock, connection updates, the admin's
\* private message, failing sends; the texts that escalate and a free text.
AlertNext ==
    \/ Advance
    \/ \E ev \in ConnectionEvents : OnBusinessConnection(ev.can_reply, ev.user_chat_id)
    \/ OnPrivateMessage(501)
    \/ MessageStep("A", EscalationTexts \cup FreeTexts, TRUE)

SpecAlert == Init /\ [][AlertNext]_vars

----------------------------------------------------------------------------
(* The risk stage: what the provider may answer to classify_risk.          *)

T_SOFT == <<"uzhas">>
T_HARD == <<"obman">>

\* A free text (the provider is asked), a soft negative and a hard negative
\* (a rule tier answers).
RiskTexts == { T_HELLO, T_SOFT, T_HARD }

\* The fields of a JSON object the provider may return, well typed or not.
RiskNeedHuman == << JBool(TRUE), JBool(FALSE), JStr("false") >>
RiskNegative == << JBool(TRUE), JBool(FALSE) >>
RiskUrgency == << JStr("low"), JStr("medium"), JStr("HIGH"), JStr("urgent") >>
RiskConfidence == << JNum(0), JNum(59), JNum(60), JStr("abc"), JNull >>

\* An object with all five fields.
RiskObject(n, g, u, c) ==
    Json([ need_human |-> RiskNeedHuman[n], negative |-> RiskNegative[g],
           urgency |-> RiskUrgency[u], reason |-> JStr("llm"),
           confidence |-> RiskConfidence[c] ])

\* The other outcomes of the provider call: it raises, its output holds no
\* JSON object, or it holds a partial object.
OtherOutcomes == << Raises, NotJson, Json([ urgency |-> JStr("HIGH") ]) >>

\* A(r) for some outcome r of the provider call.
ForSomeOutcome(A(_)) ==
    \/ \E i \in DOMAIN OtherOutcomes : A(OtherOutcomes[i])
    \/ \E n \in DOMAIN RiskNeedHuman, g \in DOMAIN RiskNegative,
          u \in DOMAIN RiskUrgency, c \in DOMAIN RiskConfidence :
            A(RiskObject(n, g, u, c))

\* The services around one handling whose risk reply is r: the connection
\* can reply, the knowledge base is empty, the other provider calls fail.
RiskEnv(r) ==
    [ fetched |-> [ kind |-> "connection", can_reply |-> TRUE,
                    user_chat_id |-> None ],
      risk |-> r, search |-> [ kind |-> "no_table" ], answer |-> Raises,
      extract |-> Raises, intent |-> NotJson ]

RiskStep(c) ==
    \E raw \in RiskTexts :
        ForSomeOutcome(LAMBDA r : OnBusinessMessage(c, raw, RiskEnv(r), 0))

RiskNext == RiskStep("A")

SpecRisk == Init /\ [][RiskNext]_vars

\* classify_risk on its own: one call with each provider outcome.
ClassifyRisk(r) ==
    /\ last' = [ op |-> "classify_risk", configured |-> config.openai_api_key,
                 reply |-> r, raised |-> classify_risk(config, r).raised,
                 risk |-> classify_risk(config, r).risk ]
    /\ UNCHANGED <<now, config, connections, clients, leads, escalations,
                   settings, calls, lastTrueAt,
                   kb_chunks>>

ClassifyNext == last.op = "none" /\ ForSomeOutcome(ClassifyRisk)

SpecClassify == Init /\ [][ClassifyNext]_vars

----------------------------------------------------------------------------
(* Inference in the guided dialog: what extract_lead_fields and            *)
(* classify_intent may propose, next to what the client answers.           *)

\* What the client may send: a greeting (no option of any menu) and one
\* option of each menu.
InferTexts ==
    { T_HELLO, NEED_BOT, BUDGET_30_80, DEADLINE_RELAXED, CONTACT_PHONE,
      CONTACT_TELEGRAM }

\* The provider's replies to extract_lead_fields: the call fails, a budget
\* only, or a need, a budget and a timeline.
InferExtracts ==
    << Raises,
       Json([ need |-> JNull, budget |-> JText(BUDGET_150PLUS),
              timeline |-> JNull, contact_method |-> JNull, phone |-> JNull ]),
       Json([ need |-> JText(NEED_SITE), budget |-> JText(BUDGET_150PLUS),
              timeline |-> JText(DEADLINE_URGENT), contact_method |-> JNull,
              phone |-> JNull ]) >>

\* The provider's replies to classify_intent.
InferIntents == << NotJson, Json([ intent |-> JStr("BOT"), confidence |-> JNum(90) ]) >>

\* What the store holds for the question.
InferSearches ==
    << [ kind |-> "no_table" ],
       [ kind |-> "rows", rows |-> << [ source_url |-> "u1" ] >> ] >>

\* The services around one handling: the connection can reply and the
\* provider judges every text neutral.
InferEnv(x, i, s) ==
    [ fetched |-> [ kind |-> "connection", can_reply |-> TRUE,
                    user_chat_id |-> None ],
      risk |-> NotJson, search |-> InferSearches[s],
      answer |-> [ kind |-> "completion", text |-> "answer" ],
      extract |-> InferExtracts[x], intent |-> InferIntents[i] ]

\* on_business_message, its record keeping also what the two inference
\* calls would return for this message.
InferMessage(c, raw, x, i, s) ==
    \E h \in { on_business_message(Handling(c, 0), raw, InferEnv(x, i, s)) } :
        Commit(c, h, Observed(c, raw, h) @@
                     [ extracted |-> extract_lead_fields(config, InferExtracts[x]),
                       intent |-> classify_intent(config, InferIntents[i]).intent ])

InferNext ==
    \E raw \in InferTexts, x \in DOMAIN InferExtracts, i \in DOMAIN InferIntents,
       s \in DOMAIN InferSearches :
        InferMessage("A", raw, x, i, s)

SpecInfer == Init /\ [][InferNext]_vars

----------------------------------------------------------------------------
(* Where operator notices go: the connection row, the saved admin chat and *)
(* the configured one, as connection updates and private messages leave    *)
(* them.                                                                   *)

\* The business_connection updates received: the owner's chat known or not.
ResolveEvents ==
    ConnectionEvents \cup { [ can_reply |-> TRUE, user_chat_id |-> None ],
                            [ can_reply |-> FALSE, user_chat_id |-> Some(502) ] }

\* db.resolve_admin_chat_id(bcid, config.admin_chat_id), as the notices call it.
ResolveAdmin ==
    /\ last' = [ op |-> "resolve_admin_chat_id", conn |-> connections,
                 saved |-> settings, env |-> config.admin_chat_id,
                 got |-> resolve_admin_chat_id(connections, settings,
                                               config.admin_chat_id) ]
    /\ UNCHANGED <<now, config, connections, clients, leads, escalations,
                   settings, calls, lastTrueAt,
                   kb_chunks>>

ResolveNext ==
    \/ \E ev \in ResolveEvents : OnBusinessConnection(ev.can_reply, ev.user_chat_id)
    \/ OnPrivateMessage(777)
    \/ ResolveAdmin

SpecResolve == Init /\ [][ResolveNext]_vars

----------------------------------------------------------------------------
(* Retrieval under an unavailable dependency: what RAGStore.search meets   *)
(* when the first message of a conversation, or one after DONE, comes in.  *)

\* What the client may send: a greeting and one option of each menu.
RetrieveTexts ==
    { T_HELLO, NEED_BOT, BUDGET_30_80, DEADLINE_RELAXED, CONTACT_TELEGRAM }

\* What search meets: the embedding call raises, the knowledge table is
\* missing, or rows are found.
RetrieveSearches ==
    << Raises, [ kind |-> "no_table" ],
       [ kind |-> "rows", rows |-> << [ source_url |-> "u1" ] >> ] >>

\* The services around one handling: the connection can reply, the provider
\* judges every text neutral and proposes no field.
RetrieveEnv(s) ==
    [ fetched |-> [ kind |-> "connection", can_reply |-> TRUE,
                    user_chat_id |-> None ],
      risk |-> NotJson, search |-> RetrieveSearches[s],
      answer |-> [ kind |-> "completion", text |-> "answer" ],
      extract |-> Raises, intent |-> NotJson ]

\* on_business_message, its record keeping also what search met.
RetrieveMessage(c, raw, s) ==
    \E h \in { on_business_message(Handling(c, 0), raw, RetrieveEnv(s)) } :
        Commit(c, h, Observed(c, raw, h) @@ [ found |-> RetrieveSearches[s].kind ])

RetrieveNext ==
    \E raw \in RetrieveTexts, s \in DOMAIN RetrieveSearches :
        RetrieveMessage("A", raw, s)

SpecRetrieve == Init /\ [][RetrieveNext]_vars

----------------------------------------------------------------------------
(* generate_answer on its own: the chunks handed to it and what the        *)
(* provider returns.                                                       *)

MaxChunks == 3

\* The source urls of retrieved chunks; "" is a blank url.
ChunkUrls == { "", "u1", "u2" }

\* Lists of at most MaxChunks retrieved chunks.
ChunkLists ==
    UNION { [ 1..n -> { [ source_url |-> u ] : u \in ChunkUrls } ] : n \in 0..MaxChunks }

\* What client.responses.create does: it raises, or returns a completion
\* whose output_text is blank or an answer.
Completions ==
    { Raises, [ kind |-> "completion", text |-> "" ],
      [ kind |-> "completion", text |-> "answer" ] }

\* One call of generate_answer(config, question, retrieved_chunks).
GenerateAnswer(chunks, reply) ==
    /\ last' = [ op |-> "generate_answer", configured |-> config.openai_api_key,
                 chunks |-> chunks, reply |-> reply,
                 answer |-> generate_answer(config, chunks, reply) ]
    /\ UNCHANGED <<now, config, connections, clients, leads, escalations,
                   settings, calls, lastTrueAt,
                   kb_chunks>>

AnswerNext ==
    /\ last.op = "none"
    /\ \E chunks \in ChunkLists, reply \in Completions : GenerateAnswer(chunks, reply)

SpecAnswer == Init /\ [][AnswerNext]_vars

----------------------------------------------------------------------------
(* Ingestion into the knowledge base (app/rag/ingest.py, app/rag/store.py). *)
(* A page text is kept as [tag, len]: which text it is and the length of   *)
(* its whitespace-normalized form; a slice of it as [tag, from, to].       *)

CHUNK_SIZE == 1000
CHUNK_OVERLAP == 200

\* The number of values a chunk id can take (a 32-digit hex prefix in the
\* code); kept small so that two keys may share an id.
HashSpace == 64

RECURSIVE ChunkFrom(_, _, _, _)
\* _chunk_text: the loop from position `start`
ChunkFrom(text, start, chunk_size, step) ==
    LET end == Min({text.len, start + chunk_size})
        chunk == [ tag |-> text.tag, from |-> start, to |-> end ]
    IN IF end >= text.len THEN << chunk >>
       ELSE << chunk >> \o ChunkFrom(text, start + step, chunk_size, step)

\* _chunk_text(text, CHUNK_SIZE, CHUNK_OVERLAP)
_chunk_text(text) ==
    IF text.len = 0 THEN <<>>
    ELSE ChunkFrom(text, 0, CHUNK_SIZE, Max({1, CHUNK_SIZE - CHUNK_OVERLAP}))

\* The characters of urls and of decimal numbers, each with a code.
Alphabet == << "0", "1", "2", "3", "4", "5", "6", "7", "8", "9", "a", "b", ":" >>
Code(ch) == CHOOSE i \in DOMAIN Alphabet : Alphabet[i] = ch

RECURSIVE str_int(_)
\* f"{chunk_index}": the decimal digits of a natural number
str_int(n) ==
    IF n < 10 THEN << Alphabet[n + 1] >>
    ELSE Append(str_int(n \div 10), Alphabet[(n % 10) + 1])

RECURSIVE sha256_prefix(_)
\* hashlib.sha256(raw).hexdigest()[:32]: a fixed digest of the characters,
\* here a polynomial one over HashSpace values
sha256_prefix(raw) ==
    IF raw = <<>> THEN 7 % HashSpace
    ELSE ( sha256_prefix(SubSeq(raw, 1, Len(raw) - 1)) * 31
           + Code(raw[Len(raw)]) ) % HashSpace

\* make_chunk_id
make_chunk_id(source_url, chunk_index) ==
    sha256_prefix(source_url \o << ":", ":" >> \o str_int(chunk_index))

RECURSIVE build_chunk_records(_)
\* build_chunk_records
build_chunk_records(docs) ==
    IF docs = <<>> THEN <<>>
    ELSE LET doc == docs[Len(docs)]
             chunks == _chunk_text(doc.text)
         IN build_chunk_records(SubSeq(docs, 1, Len(docs) - 1)) \o
            [ k \in DOMAIN chunks |->
                [ chunk_id |-> make_chunk_id(doc.url, k - 1), text |-> chunks[k],
                  source_url |-> doc.url, title |-> doc.title ] ]

\* A plausible slip: a plain INSERT into a table without the key on id.
upsert_row_appending(table, r) ==
    Append(table, [ id |-> r.chunk_id, source_url |-> r.source_url,
                    title |-> r.title, content |-> r.text ])

\* INSERT INTO kb_chunks ... ON CONFLICT (id) DO UPDATE, for one record
upsert_row(table, r) ==
    LET row == [ id |-> r.chunk_id, source_url |-> r.source_url,
                 title |-> r.title, content |-> r.text ]
    IN IF \E i \in DOMAIN table : table[i].id = r.chunk_id
       THEN [ i \in DOMAIN table |-> IF table[i].id = r.chunk_id THEN row
                                     ELSE table[i] ]
       ELSE Append(table, row)

RECURSIVE executemany(_, _)
\* conn.executemany: the statement once per record, in order
executemany(table, records) ==
    IF records = <<>> THEN table
    ELSE upsert_row(executemany(table, SubSeq(records, 1, Len(records) - 1)),
                    records[Len(records)])

\* RAGStore.upsert: [raised, table, count].  `embedded` tells whether the
\* embeddings call succeeded.
upsert(table, records, cfg, embedded) ==
    IF records = <<>> THEN [ raised |-> FALSE, table |-> table, count |-> 0 ]
    ELSE IF ~cfg.openai_api_key \/ ~embedded
    THEN [ raised |-> TRUE, table |-> table, count |-> 0 ]
    ELSE [ raised |-> FALSE, table |-> executemany(table, records),
           count |-> Len(records) ]

\* The pages a crawl may return: the urls of one site, each page with one of
\* the texts it may hold at the time of the crawl.
PageUrls == { << "a" >>, << "b" >> }
PageTexts ==
    { [ tag |-> "old", len |-> 500 ], [ tag |-> "old", len |-> 1001 ],
      [ tag |-> "new", len |-> 1900 ], [ tag |-> "new", len |-> 0 ] }
PageDocs == { [ url |-> u, title |-> x.tag, text |-> x ] : u \in PageUrls, x \in PageTexts }

\* crawl_site lists a url once (its `seen` set).
CrawlResults ==
    { << d >> : d \in PageDocs }
    \cup { << d1, d2 >> : d1 \in { d \in PageDocs : d.url = << "a" >> },
                          d2 \in { d \in PageDocs : d.url = << "b" >> } }

\* A page list reduced to what the ids may depend on: the url of each page
\* and the number of its chunks.
KeysOf(docs) ==
    [ k \in DOMAIN docs |-> [ url |-> docs[k].url,
                              chunks |-> Len(_chunk_text(docs[k].text)) ] ]

\* ingest._run for one site: build_chunk_records, then store.upsert.
Ingest(docs, embedded) ==
    \E records \in { build_chunk_records(docs) } :
    \E r \in { upsert(kb_chunks, records, config, embedded) } :
        /\ kb_chunks' = r.table
        /\ last' = [ op |-> "ingest", keys |-> KeysOf(docs),
                     ids |-> [ k \in DOMAIN records |-> records[k].chunk_id ],
                     raised |-> r.raised, count |-> r.count ]
        /\ UNCHANGED <<now, config, connections, clients, leads, escalations,
                       settings, calls, lastTrueAt>>

IngestNext == \E docs \in CrawlResults, embedded \in BOOLEAN : Ingest(docs, embedded)

SpecIngest == Init /\ [][IngestNext]_vars

----------------------------------------------------------------------------
(* Two conversations on one connection: messages of clients A and B, each  *)
(* handled with sends and services that may fail, while a mark_escalation  *)
(* call of another handling is in flight, one await at a time.             *)

\* The text handled with failing sends: the escalate control.
PairTexts == { MANAGER_BUTTON }

\* A greeting, handled while the embeddings call of retrieval fails.
PairGreeting(c) == RetrieveMessage(c, T_HELLO, 1)

\* The arguments of the call in flight.
PairArgs == { [ reason |-> "operator", urgency |-> "high", last_message |-> <<"m1">> ] }

\* The steps of the call in flight (one pooled connection).
PairCall ==
    \/ \E c \in Clients, a \in PairArgs : RaceStart(1, c, a)
    \/ RaceSelect(1)
    \/ RaceUpsert(1)
    \/ RaceCommit(1)
    \/ RaceGetLead(1)
    \/ RaceCreateLead(1)
    \/ RaceUpdateLead(1)

PairsNext ==
    \/ \E c \in Clients : MessageStep(c, PairTexts, TRUE)
    \/ \E c \in Clients : PairGreeting(c)
    \/ PairCall

SpecPairs == Init /\ [][PairsNext]_vars

----------------------------------------------------------------------------
(* Reply keyboards (app/keyboards.py): the button texts, row by row.       *)

need_keyboard ==
    << NEED_BOT, NEED_SITE, NEED_AUTOMATION, NEED_OTHER, MANAGER_BUTTON >>

\* A plausible slip: the budget menu loses its last row.
budget_keyboard_without_manager ==
    << BUDGET_UPTO30, BUDGET_30_80, BUDGET_80_150, BUDGET_150PLUS >>

budget_keyboard ==
    << BUDGET_UPTO30, BUDGET_30_80, BUDGET_80_150, BUDGET_150PLUS, MANAGER_BUTTON >>

deadline_keyboard ==
    << DEADLINE_URGENT, DEADLINE_WEEKS, DEADLINE_MONTH, DEADLINE_RELAXED,
       MANAGER_BUTTON >>

contact_keyboard ==
    << CONTACT_TELEGRAM, CONTACT_PHONE, CONTACT_CALL, MANAGER_BUTTON >>

\* ReplyKeyboardRemove(): no button is shown.
remove_keyboard == <<>>

\* The reply_markup of a send, from the name the handler's log keeps.
reply_markup(kb) ==
    CASE kb = "need" -> need_keyboard
      [] kb = "budget" -> budget_keyboard
      [] kb = "deadline" -> deadline_keyboard
      [] kb = "contact" -> contact_keyboard
      [] OTHER -> remove_keyboard

----------------------------------------------------------------------------
(* The normalizers on their own: the replies a client may give to a menu   *)
(* prompt, tapped or typed.                                                *)

MaxBudgetWords == 3

\* The pieces a typed budget is made of.
BudgetWords == { "do", "<", "ot", "30", "80", "150", "k", " ", "+" }

\* Typed budgets of at most MaxBudgetWords pieces.
BudgetTexts == UNION { [ 1..n -> BudgetWords ] : n \in 1..MaxBudgetWords }

\* The buttons of the four menus and of the escalate control.
MenuTexts ==
    UNION { { reply_markup(kb)[k] : k \in DOMAIN reply_markup(kb) } :
                kb \in {"need", "budget", "deadline", "contact"} }

NormalizeFields == { "need", "budget", "deadline", "contact_method" }

\* The normalizer _handle_lead_dialog applies for a field.
normalize(field, value) ==
    CASE field = "need" -> _normalize_need(value)
      [] field = "budget" -> _normalize_budget(value)
      [] field = "deadline" -> _normalize_deadline(value)
      [] OTHER -> _normalize_contact(value)

\* The menu shown when a field is asked.
KeyboardOf(field) ==
    CASE field = "need" -> need_keyboard
      [] field = "budget" -> budget_keyboard
      [] field = "deadline" -> deadline_keyboard
      [] OTHER -> contact_keyboard

\* One call of a normalizer.
Normalize(field, value) ==
    /\ last' = [ op |-> "normalize", field |-> field, value |-> value,
                 got |-> normalize(field, value) ]
    /\ UNCHANGED <<now, config, connections, clients, leads, escalations,
                   settings, calls, lastTrueAt, kb_chunks>>

NormalizeNext ==
    /\ last.op = "none"
    /\ \E field \in NormalizeFields, value \in MenuTexts \cup BudgetTexts :
           Normalize(field, value)

SpecNormalize == Init /\ [][NormalizeNext]_vars

----------------------------------------------------------------------------
(* _extract_phone on its own: texts made of digits, separators and other   *)
(* characters.                                                             *)

MaxSideDigits == 5
MaxSeparators == 8

\* n copies of a character
Repeat(ch, n) == [ k \in 1..n |-> ch ]

\* What stands before and after the digits: nothing, a plus sign, a letter.
PhonePrefixes == { <<>>, << "+" >>, << "a" >> }
PhoneSuffixes == { <<>>, << "a" >> }

\* Texts holding up to MaxSideDigits digits, up to MaxSeparators separators
\* and again up to MaxSideDigits digits.
PhoneTexts ==
    { p \o Repeat("1", a) \o Repeat(sep, b) \o Repeat("2", c) \o q :
        p \in PhonePrefixes, q \in PhoneSuffixes, sep \in { "-", " " },
        a \in 0..MaxSideDigits, b \in 0..MaxSeparators, c \in 0..MaxSideDigits }

\* One call of _extract_phone.
ExtractPhone(value) ==
    /\ last' = [ op |-> "_extract_phone", value |-> value,
                 got |-> _extract_phone(value) ]
    /\ UNCHANGED <<now, config, connections, clients, leads, escalations,
                   settings, calls, lastTrueAt, kb_chunks>>

PhoneNext == last.op = "none" /\ \E value \in PhoneTexts : ExtractPhone(value)

SpecPhone == Init /\ [][PhoneNext]_vars

----------------------------------------------------------------------------
(* _chunk_text on its own, for any text, chunk size and overlap.           *)

MaxTextLen == 4
MaxChunkSize == 3
MaxOverlap == 3

RECURSIVE SqueezeSpaces(_)
\* text.split() joined by " ", but for a space the text may end with
SqueezeSpaces(chars) ==
    IF chars = <<>> THEN <<>>
    ELSE LET init == SqueezeSpaces(SubSeq(chars, 1, Len(chars) - 1))
             ch == chars[Len(chars)]
         IN IF ch # " " THEN Append(init, ch)
            ELSE IF init = <<>> \/ init[Len(init)] = " " THEN init
            ELSE Append(init, " ")

\* " ".join(text.split())
split_join(chars) ==
    LET s == SqueezeSpaces(chars)
    IN IF s # <<>> /\ s[Len(s)] = " " THEN SubSeq(s, 1, Len(s) - 1) ELSE s

\* A plausible slip: the walk advances by a whole chunk, without overlap.
ChunkSpans_without_overlap(chars, chunk_size, overlap) ==
    LET clean == split_join(chars)
    IN IF clean = <<>> THEN <<>>
       ELSE ChunkFrom([ tag |-> "text", len |-> Len(clean) ], 0, chunk_size,
                      chunk_size)

\* _chunk_text(text, chunk_size, overlap): the slices of the collapsed text
\* as [tag, from, to].
ChunkSpans(chars, chunk_size, overlap) ==
    LET clean == split_join(chars)
    IN IF clean = <<>> THEN <<>>
       ELSE ChunkFrom([ tag |-> "text", len |-> Len(clean) ], 0, chunk_size,
                      Max({1, chunk_size - overlap}))

\* Texts of at most MaxTextLen characters, spaces among them.
ChunkTexts == UNION { [ 1..n -> { "a", "b", " " } ] : n \in 0..MaxTextLen }

\* One call of _chunk_text.
ChunkText(chars, chunk_size, overlap) ==
    \E clean \in { split_join(chars) } :
    \E spans \in { ChunkSpans(chars, chunk_size, overlap) } :
        /\ last' = [ op |-> "_chunk_text", text |-> chars, clean |-> clean,
                     chunk_size |-> chunk_size, overlap |-> overlap,
                     spans |-> [ k \in DOMAIN spans |->
                                   [ from |-> spans[k].from, to |-> spans[k].to ] ],
                     chunks |-> [ k \in DOMAIN spans |->
                                    SubSeq(clean, spans[k].from + 1, spans[k].to) ] ]
        /\ UNCHANGED <<now, config, connections, clients, leads, escalations,
                       settings, calls, lastTrueAt, kb_chunks>>

ChunkNext ==
    /\ last.op = "none"
    /\ \E chars \in ChunkTexts, chunk_size \in 1..MaxChunkSize,
          overlap \in 0..MaxOverlap : ChunkText(chars, chunk_size, overlap)

SpecChunk == Init /\ [][ChunkNext]_vars

----------------------------------------------------------------------------
(* crawl_site: the breadth-first crawl of one root URL over a link graph.  *)

MAX_DEPTH == 2
MIN_PAGES_PER_DOMAIN == 20
SmallMinPages == 2

\* A URL as urlparse splits it; the path is a sequence of characters.
Url(netloc, path) ==
    [ scheme |-> "https", netloc |-> netloc, path |-> path, fragment |-> "" ]

RootUrl == Url("site", <<>>)
PageA == Url("site", << "a" >>)
PageB == Url("site", << "b" >>)
PageC == Url("site", << "c" >>)
PageUpperA == Url("SITE", << "a" >>)
PageElsewhere == Url("other", <<>>)
CrawlUrls == { RootUrl, PageA, PageB, PageC, PageUpperA, PageElsewhere }

\* The forms an href to a page may take.
WithSlash(u) == [ u EXCEPT !.path = @ \o << "/" >> ]
WithFragment(u) == [ u EXCEPT !.fragment = "top" ]
MailLink == [ scheme |-> "mailto", netloc |-> "", path |-> << "m" >>, fragment |-> "" ]

RECURSIVE rstrip_slash(_)
\* str.rstrip("/")
rstrip_slash(path) ==
    IF path # <<>> /\ path[Len(path)] = "/"
    THEN rstrip_slash(SubSeq(path, 1, Len(path) - 1))
    ELSE path

\* _normalize_url for an absolute href: None for a scheme other than http(s).
_normalize_url(href) ==
    LET cleaned == [ href EXCEPT !.fragment = "" ]
    IN IF cleaned.scheme \notin { "http", "https" } THEN None
       ELSE Some([ cleaned EXCEPT !.path = rstrip_slash(@) ])

\* str.lower() of a network location
lower_netloc(netloc) == IF netloc = "SITE" THEN "site" ELSE netloc

_same_domain(url_a, url_b) == lower_netloc(url_a.netloc) = lower_netloc(url_b.netloc)

RECURSIVE _extract_links(_)
\* _extract_links: the hrefs of a page, normalized, unusable ones dropped
_extract_links(hrefs) ==
    IF hrefs = <<>> THEN <<>>
    ELSE LET normalized == _normalize_url(Head(hrefs))
         IN (IF normalized = None THEN <<>> ELSE << normalized[1] >>)
            \o _extract_links(Tail(hrefs))

\* What a GET of a url gives: a failure, or a page with or without
\* extractable text and with its hrefs.
FetchFails == [ ok |-> FALSE, text |-> FALSE, hrefs |-> <<>> ]
Fetched(text, hrefs) == [ ok |-> TRUE, text |-> text, hrefs |-> hrefs ]

HrefLists(u) ==
    CASE u = RootUrl -> { << WithSlash(PageA), WithFragment(PageA) >>,
                          << PageA, PageB, PageElsewhere >>,
                          << WithSlash(RootUrl), MailLink >> }
      [] u = PageA -> { << PageB, RootUrl >>, << PageB, PageC >>,
                        << PageElsewhere, PageUpperA >> }
      [] u = PageB -> { << PageC >>, << PageC, PageA >> }
      [] u = PageC -> { << RootUrl >>, << PageA, PageElsewhere >> }
      [] u = PageUpperA -> { << PageC >> }
      [] OTHER -> {}

Responses(u) ==
    IF u \in { RootUrl, PageA }
    THEN { FetchFails } \cup { Fetched(text, hrefs) : text \in BOOLEAN, hrefs \in HrefLists(u) }
    ELSE { FetchFails } \cup { Fetched(TRUE, hrefs) : hrefs \in HrefLists(u) }

\* The sites crawled: a response for every url.
LinkGraphs ==
    { [ u \in CrawlUrls |-> IF u = RootUrl THEN r0
                            ELSE IF u = PageA THEN ra
                            ELSE IF u = PageB THEN rb
                            ELSE IF u = PageC THEN rc
                            ELSE IF u = PageUpperA THEN rA
                            ELSE FetchFails ] :
        r0 \in Responses(RootUrl), ra \in Responses(PageA), rb \in Responses(PageB),
        rc \in Responses(PageC), rA \in Responses(PageUpperA) }

RECURSIVE EnqueueLinks_of_any_domain(_, _, _, _, _)
\* A plausible slip: links are queued whatever their domain.
EnqueueLinks_of_any_domain(queue, links, seen, root, depth) ==
    IF links = <<>> THEN queue
    ELSE LET link == Head(links)
             q == IF link \in seen THEN queue
                  ELSE Append(queue, << link, depth + 1 >>)
         IN EnqueueLinks_of_any_domain(q, Tail(links), seen, root, depth)

RECURSIVE EnqueueLinks(_, _, _, _, _)
\* for link in _extract_links(html, url): ... queue.append((link, depth + 1))
EnqueueLinks(queue, links, seen, root, depth) ==
    IF links = <<>> THEN queue
    ELSE LET link == Head(links)
             q == IF link \in seen \/ ~_same_domain(root, link) THEN queue
                  ELSE Append(queue, << link, depth + 1 >>)
         IN EnqueueLinks(q, Tail(links), seen, root, depth)

\* One pass of the while loop of crawl_site over its locals f.
crawl_iteration(f) ==
    LET url == Head(f.queue)[1]
        depth == Head(f.queue)[2]
        popped == [ f EXCEPT !.queue = Tail(@), !.iterations = @ + 1 ]
        response == f.pages[url]
        got == [ popped EXCEPT !.seen = @ \cup { url },
                    !.fetched = Append(@, [ url |-> url, depth |-> depth,
                                            collected |-> Len(f.docs) ]) ]
        kept == IF response.text THEN [ got EXCEPT !.docs = Append(@, url) ] ELSE got
    IN IF url \in f.seen THEN popped
       ELSE IF ~response.ok THEN got
       ELSE IF depth >= f.max_depth THEN kept
       ELSE [ kept EXCEPT !.queue = EnqueueLinks(@, _extract_links(response.hrefs),
                                                 kept.seen, f.root, depth) ]

\* crawl_site(root_url, max_depth, min_pages) is called.
CrawlStart(root_url, pages, min_pages) ==
    /\ last.op = "none"
    /\ calls[1] = NoCall
    /\ \E root \in { [ root_url EXCEPT !.path = rstrip_slash(@) ] } :
          calls' = [ calls EXCEPT ![1] =
                       [ pc |-> "crawl", root |-> root, pages |-> pages,
                         max_depth |-> MAX_DEPTH, min_pages |-> min_pages,
                         queue |-> << << root, 0 >> >>, seen |-> {}, docs |-> <<>>,
                         fetched |-> <<>>, iterations |-> 0 ] ]
    /\ last' = [ op |-> "crawl_site", returned |-> FALSE ]
    /\ UNCHANGED <<now, config, connections, clients, leads, escalations,
                   settings, lastTrueAt, kb_chunks>>

\* while queue and len(docs) < min_pages: one pass
CrawlIteration ==
    /\ calls[1].pc = "crawl"
    /\ calls[1].queue # <<>>
    /\ Len(calls[1].docs) < calls[1].min_pages
    /\ calls' = [ calls EXCEPT ![1] = crawl_iteration(calls[1]) ]
    /\ UNCHANGED <<now, config, connections, clients, leads, escalations,
                   settings, last, lastTrueAt, kb_chunks>>

\* return docs
CrawlReturn ==
    /\ calls[1].pc = "crawl"
    /\ ~(calls[1].queue # <<>> /\ Len(calls[1].docs) < calls[1].min_pages)
    /\ calls' = [ calls EXCEPT ![1].pc = "returned" ]
    /\ last' = [ op |-> "crawl_site", returned |-> TRUE ]
    /\ UNCHANGED <<now, config, connections, clients, leads, escalations,
                   settings, lastTrueAt, kb_chunks>>

CrawlNext ==
    \/ \E root_url \in { RootUrl, WithSlash(RootUrl) }, pages \in LinkGraphs,
          min_pages \in { SmallMinPages, MIN_PAGES_PER_DOMAIN } :
          CrawlStart(root_url, pages, min_pages)
    \/ CrawlIteration
    \/ CrawlReturn

SpecCrawl == Init /\ [][CrawlNext]_vars

----------------------------------------------------------------------------
(* A client who answers every prompt with a valid option: each message is  *)
(* the reply to the prompt of the stored step, the connection can reply,   *)
(* no message escalates and every send is delivered.                       *)

T_NINE_DIGITS == << "9", "0", "0", "1", "2", "3", "4", "5", "6" >>

\* The step the client is at.
StepOf(c) == IF leads[c] = None THEN STEP_WELCOME ELSE leads[c][1].step

\* The valid replies at a step: an opening question at WELCOME, an option
\* of the menu shown, a phone number, a time for the call.
ValidReplies(step) ==
    CASE step = STEP_WELCOME -> { T_HELLO, NEED_BOT }
      [] step = STEP_NEED -> { NEED_BOT, NEED_SITE }
      [] step = STEP_BUDGET -> { BUDGET_UPTO30, BUDGET_30_80 }
      [] step = STEP_DEADLINE -> { DEADLINE_URGENT, DEADLINE_RELAXED }
      [] step = STEP_CONTACT_METHOD -> { CONTACT_TELEGRAM, CONTACT_PHONE, CONTACT_CALL }
      [] step = STEP_PHONE -> { T_PHONE, T_NINE_DIGITS }
      [] OTHER -> { T_HELLO }

\* The external answers of a handling in which the connection is fetched
\* and can reply and the provider does not ask for a human.
DriveEnvs(c, raw) ==
    { e \in Envs(c, raw) :
        /\ e.fetched # Raises
        /\ e.risk \in { NoReply, NotJson } }

\* The client replies to the prompt; the dispatcher runs the handler.
DriveStep(c) ==
    /\ StepOf(c) # STEP_DONE
    /\ \E raw \in ValidReplies(StepOf(c)) : \E e \in DriveEnvs(c, raw) :
          OnBusinessMessage(c, raw, e, 0)

DriveNext == DriveStep("A")

\* Every message received is handled: the dispatcher starts the handler of
\* each update and the handler runs to its end.
SpecDrive == Init /\ [][DriveNext]_vars /\ WF_vars(DriveNext)

----------------------------------------------------------------------------
(* Two first messages of one client handled concurrently: on_business_message *)
(* from the lead lookup on, one step per statement that reaches the leads   *)
(* table (the replies of the dialog and the tail of _advance_or_ask_next    *)
(* are taken whole).  The connection can reply, no message escalates and    *)
(* every send is delivered.                                                 *)

FirstTexts == { T_HELLO, NEED_BOT }
FirstEnvs ==
    { [ search |-> s, extract |-> x, intent |-> i ] :
        s \in { y \in SearchResults : y # Raises },
        x \in { NotJson } \cup { y \in ExtractReplies : y # Raises },
        i \in IntentReplies }

\* The message arrives while the client has no lead; the connection is
\* fetched and can reply, the client is recorded.
FirstStart(i, raw, e) ==
    /\ calls[i] = NoCall
    /\ leads["A"] = None
    /\ calls' = [ calls EXCEPT ![i] =
                    [ pc |-> "get_lead", client |-> "A", raw |-> raw, e |-> e,
                      lead |-> None ] ]
    /\ connections' = Some([ owner_user_chat_id |-> None, can_reply |-> TRUE ])
    /\ clients' = [ clients EXCEPT !["A"] = TRUE ]
    /\ UNCHANGED <<now, config, leads, escalations, settings, last, lastTrueAt,
                   kb_chunks>>

\* lead = await db.get_lead(bcid, client_chat_id)
FirstGetLead(i) ==
    /\ calls[i].pc = "get_lead"
    /\ calls' = [ calls EXCEPT ![i].lead = leads[calls[i].client],
                               ![i].pc = IF leads[calls[i].client] = None
                                         THEN "create_lead" ELSE "touch_lead" ]
    /\ UNCHANGED <<now, config, connections, clients, leads, escalations,
                   settings, last, lastTrueAt, kb_chunks>>

\* if lead is None: lead = await db.create_or_reset_lead(bcid, client_chat_id)
FirstCreateLead(i) ==
    /\ calls[i].pc = "create_lead"
    /\ \E row \in { create_or_reset_lead(leads[calls[i].client], now) } :
          /\ leads' = [ leads EXCEPT ![calls[i].client] = row ]
          /\ calls' = [ calls EXCEPT ![i].lead = row, ![i].pc = "touch_lead" ]
    /\ UNCHANGED <<now, config, connections, clients, escalations, settings,
                   last, lastTrueAt, kb_chunks>>

\* await db.update_lead_fields(..., last_client_message=question); the risk
\* stage; the routing on lead.step of the row the handler holds
FirstTouchLead(i) ==
    /\ calls[i].pc = "touch_lead"
    /\ leads' = [ leads EXCEPT ![calls[i].client] =
                    update_lead_fields(@, [ NoFields EXCEPT
                        !.last_client_message = Some(calls[i].raw) ], now) ]
    /\ calls' = [ calls EXCEPT ![i].pc =
                    IF calls[i].lead[1].step > 0 /\ calls[i].lead[1].step < STEP_DONE
                    THEN "dialog" ELSE "rag" ]
    /\ UNCHANGED <<now, config, connections, clients, escalations, settings,
                   last, lastTrueAt, kb_chunks>>

\* _handle_lead_dialog, whole
FirstDialog(i) ==
    /\ calls[i].pc = "dialog"
    /\ \E h \in { _handle_lead_dialog(Handling(calls[i].client, 0), calls[i].raw,
                                      calls[i].lead[1].step,
                                      calls[i].e @@ [ answer |-> NoReply ]) } :
          /\ leads' = [ leads EXCEPT ![calls[i].client] = h.lead ]
          /\ escalations' = [ escalations EXCEPT ![calls[i].client] = h.esc ]
    /\ calls' = [ calls EXCEPT ![i].pc = "done" ]
    /\ UNCHANGED <<now, config, connections, clients, settings, last,
                   lastTrueAt, kb_chunks>>

\* _handle_rag_entry up to its update_lead_fields(step=STEP_NEED, ...)
FirstRag(i) ==
    /\ calls[i].pc = "rag"
    /\ \E r \in { rag_search(config, calls[i].raw, calls[i].e.search) } :
          /\ leads' = [ leads EXCEPT ![calls[i].client] =
                          update_lead_fields(@, [ NoFields EXCEPT
                              !.step = Some(STEP_NEED),
                              !.last_client_message = Some(calls[i].raw),
                              !.rag_sources =
                                  Some(_unique_urls([ k \in DOMAIN r.chunks |->
                                                        r.chunks[k].source_url ])) ],
                              now) ]
          /\ calls' = [ calls EXCEPT ![i].pc = IF r.chunks = <<>> THEN "done"
                                               ELSE "extract" ]
    /\ UNCHANGED <<now, config, connections, clients, escalations, settings,
                   last, lastTrueAt, kb_chunks>>

\* extract_lead_fields, _apply_extracted_fields and the get_lead after them
FirstExtract(i) ==
    /\ calls[i].pc = "extract"
    /\ \E h \in { _apply_extracted_fields(Handling(calls[i].client, 0),
                      extract_lead_fields(config, calls[i].e.extract)) } :
          /\ leads' = [ leads EXCEPT ![calls[i].client] = h.lead ]
          /\ calls' = [ calls EXCEPT ![i].lead = h.lead,
                                     ![i].pc = IF h.lead = None THEN "done"
                                               ELSE "advance" ]
    /\ UNCHANGED <<now, config, connections, clients, escalations, settings,
                   last, lastTrueAt, kb_chunks>>

\* _advance_or_ask_next(updated), whole
FirstAdvance(i) ==
    /\ calls[i].pc = "advance"
    /\ \E h \in { _advance_or_ask_next(Handling(calls[i].client, 0),
                                       calls[i].lead[1], calls[i].e) } :
          /\ leads' = [ leads EXCEPT ![calls[i].client] = h.lead ]
          /\ escalations' = [ escalations EXCEPT ![calls[i].client] = h.esc ]
    /\ calls' = [ calls EXCEPT ![i].pc = "done" ]
    /\ UNCHANGED <<now, config, connections, clients, settings, last,
                   lastTrueAt, kb_chunks>>

FirstNext ==
    \/ \E i \in Procs, raw \in FirstTexts, e \in FirstEnvs : FirstStart(i, raw, e)
    \/ \E i \in Procs : FirstGetLead(i)
    \/ \E i \in Procs : FirstCreateLead(i)
    \/ \E i \in Procs : FirstTouchLead(i)
    \/ \E i \in Procs : FirstDialog(i)
    \/ \E i \in Procs : FirstRag(i)
    \/ \E i \in Procs : FirstExtract(i)
    \/ \E i \in Procs : FirstAdvance(i)

SpecFirst == Init /\ [][FirstNext]_vars

----------------------------------------------------------------------------
(* Claims *)

Done(i) == calls[i].pc = "done"

\* C1: for sequential calls of mark_escalation on one (connection, client),
\* a call returns should_alert = TRUE exactly when no earlier call returned
\* TRUE, or the last call that returned TRUE lies at least cooldown_minutes
\* back; every call less than cooldown_minutes after it returns FALSE.
C1_CooldownSequence ==
    last.op = "mark_escalation" =>
        ( last.should_alert <=>
            ( \/ last.prevTrue = None
              \/ last.at - last.prevTrue[1] >= CooldownMinutes ) )

\* A third alert exactly when the window has elapsed, answered TRUE again.
C1_Witness ==
    /\ last.op = "mark_escalation"
    /\ last.should_alert
    /\ last.prevTrue # None
    /\ last.at - last.prevTrue[1] = CooldownMinutes

\* C2 (as claimed): of two mark_escalation calls on the same
\* (connection, client) that start within one cooldown window, at most one
\* returns should_alert = TRUE, whatever their interleaving.
C2_AtMostOneAlert ==
    \A i, j \in Procs :
        ( /\ i # j
          /\ Done(i) /\ Done(j)
          /\ calls[i].client = calls[j].client
          /\ calls[i].now - calls[j].now < CooldownMinutes
          /\ calls[j].now - calls[i].now < CooldownMinutes )
        => ~(calls[i].should_alert /\ calls[j].should_alert)

\* C3 (as claimed): last_alert_at of the escalation record changes only in a
\* mark_escalation call that returns TRUE and whose previous last_alert_at
\* was absent or at least the cooldown older than the call's now.
C3_AlertAtAdvancesOnlyAfterCooldown ==
    [][ \A c \in Clients :
          LastAlertAt(escalations'[c]) # LastAlertAt(escalations[c]) =>
             \E i \in Procs :
                /\ calls[i].pc = "commit" /\ calls'[i].pc = "get_lead"
                /\ calls[i].client = c
                /\ calls[i].should_alert
                /\ \/ LastAlertAt(escalations[c]) = None
                   \/ calls[i].now - LastAlertAt(escalations[c])[1]
                         >= CooldownMinutes ]_vars

\* C4: every mark_escalation call, whether it returns TRUE or FALSE, leaves
\* the escalation record open and with reason, urgency and last_message
\* equal to the arguments of that call.
C4_RecordRefreshed ==
    last.op = "mark_escalation" =>
        /\ escalations["A"] # None
        /\ escalations["A"][1].escalation_open = TRUE
        /\ escalations["A"][1].reason = last.args.reason
        /\ escalations["A"][1].urgency = last.args.urgency
        /\ escalations["A"][1].last_message = last.args.last_message

\* A call inside the cooldown, on a closed record that held other values.
C4_Witness ==
    /\ last.op = "mark_escalation"
    /\ ~last.should_alert
    /\ last.prev # None
    /\ last.prev[1].escalation_open = FALSE
    /\ last.prev[1].reason # last.args.reason
    /\ last.prev[1].urgency # last.args.urgency
    /\ last.prev[1].last_message # last.args.last_message
    /\ escalations["A"][1].reason = last.args.reason

\* The value update_lead_fields stores for a supplied argument.
StoredAs(k, v) ==
    CASE k \in {"step", "escalation_open"} -> v[1]
      [] k \in {"summary", "rag_sources"} -> Some(json_dumps(v[1]))
      [] OTHER -> v

\* C9: update_lead_fields changes exactly the columns whose arguments are
\* supplied, leaves every other column as it was, stamps updated_at with the
\* time of the call, and therefore never turns a stored value into NULL.
C9_OnlySuppliedColumnsChange ==
    ( last.op = "update_lead_fields" /\ last.pre # None ) =>
        LET pre == last.pre[1]
            post == leads[last.client][1]
        IN /\ leads[last.client] # None
           /\ \A k \in UpdCols :
                  /\ last.f[k] = None => post[ColumnOf(k)] = pre[ColumnOf(k)]
                  /\ last.f[k] # None => post[ColumnOf(k)] = StoredAs(k, last.f[k])
                  /\ ( k \notin {"step", "escalation_open"}
                       /\ pre[ColumnOf(k)] # None ) => post[ColumnOf(k)] # None
           /\ post.updated_at = last.at

\* Only budget is supplied to a row holding a need: need, deadline and
\* contact_method are as before and updated_at has advanced.
C9_Witness ==
    /\ last.op = "update_lead_fields"
    /\ last.pre # None
    /\ \A k \in UpdCols : last.f[k] # None <=> k = "budget"
    /\ last.pre[1].need # None
    /\ leads[last.client][1].need = last.pre[1].need
    /\ leads[last.client][1].budget = last.f.budget
    /\ leads[last.client][1].updated_at > last.pre[1].updated_at

\* Events of the log of the last handling.
IsSend(e, to, what) == e.ev = "send" /\ e.to = to /\ e.what = what
IsEvent(e, ev) == e.ev = ev
Count(log, P(_)) == Cardinality({ i \in DOMAIN log : P(log[i]) })
Handled == last.op = "business_message"
Question == IF strip(last.raw) = <<>> THEN TEXT_NON_MESSAGE ELSE strip(last.raw)

\* C5: in the handling of a message that escalates, the cooldown check
\* (mark_escalation) runs only after the acknowledgement has been sent to the
\* client, an alert goes to the operator only after a check that returned
\* should_alert = TRUE, and none is sent when the check returned FALSE.
C5_AckBeforeCheckAlertOnlyIfDue ==
    ( Handled /\ last.path = "escalate" ) =>
        /\ \A i \in DOMAIN last.log :
              IsEvent(last.log[i], "mark_escalation") =>
                  \E j \in 1..(i - 1) : IsSend(last.log[j], "client", "ack")
        /\ \A k \in DOMAIN last.log :
              IsSend(last.log[k], "admin", "alert") =>
                  \E i \in 1..(k - 1) :
                      /\ IsEvent(last.log[i], "mark_escalation")
                      /\ last.log[i].should_alert
        /\ last.alert = Some(FALSE) =>
              \A k \in DOMAIN last.log : ~IsSend(last.log[k], "admin", "alert")

\* An escalating message inside the cooldown, the operator known: the client
\* is acknowledged, the check returns FALSE, no alert is sent.
C5_Witness ==
    /\ Handled /\ last.path = "escalate" /\ last.completed
    /\ last.admin # None
    /\ last.alert = Some(FALSE)
    /\ Len(last.log) = 2
    /\ IsSend(last.log[1], "client", "ack")
    /\ IsEvent(last.log[2], "mark_escalation")

\* C6: a message whose text, lower-cased, holds a human-request pattern and
\* whose handling reaches the risk stage is escalated with need_human = TRUE
\* and urgency "high" (by the rule verdict, or by the escalate control), and
\* classify_risk is not called, with the provider configured or not.
C6_HumanRequestDecidedByRule ==
    ( /\ Handled
      /\ AnyIn(HUMAN_REQUEST_PATTERNS, lower(Question))
      /\ last.step # None ) =>
        /\ \A i \in DOMAIN last.log : ~IsEvent(last.log[i], "classify_risk")
        /\ last.path = "escalate"
        /\ last.escalated # None
        /\ last.escalated[1].need_human
        /\ last.escalated[1].urgency = "high"
        /\ Question # MANAGER_BUTTON =>
              /\ last.risk # None
              /\ last.risk[1].need_human
              /\ last.risk[1].urgency = "high"

\* A request for a human typed in upper case, the provider configured: the
\* rule verdict is used.
C6_Witness ==
    /\ Handled /\ last.raw = T_HUMAN_UPPER
    /\ config.openai_api_key
    /\ last.risk # None /\ last.risk[1].need_human /\ last.risk[1].urgency = "high"
    /\ last.path = "escalate"
    /\ \A pat \in HUMAN_REQUEST_PATTERNS : ~Contains(last.raw, pat)

QuestionOf(raw) == IF strip(raw) = <<>> THEN TEXT_NON_MESSAGE ELSE strip(raw)
Thanks(log) == Count(log, LAMBDA e : IsSend(e, "client", "thanks"))
Summaries(log) == Count(log, LAMBDA e : IsSend(e, "admin", "summary"))

\* C7: the handling of a message that escalates does nothing but classify the
\* risk, acknowledge, mark the escalation and notify the operator (no
\* retrieval, answering, field extraction, intent classification or prompt),
\* and the lead row it found keeps its step, need, budget, deadline,
\* contact_method, phone and call_time.
C7_EscalationShortCircuits ==
    [][ ( last'.op = "business_message" /\ last'.path = "escalate" ) =>
          /\ \A i \in DOMAIN last'.log :
                \/ IsSend(last'.log[i], "client", "ack")
                \/ IsSend(last'.log[i], "admin", "alert")
                \/ IsSend(last'.log[i], "admin", "new_client")
                \/ IsEvent(last'.log[i], "classify_risk")
                \/ IsEvent(last'.log[i], "mark_escalation")
          /\ leads[last'.client] # None =>
                /\ leads'[last'.client] # None
                /\ CoreOf(leads'[last'.client][1]) = CoreOf(leads[last'.client][1])
      ]_vars

\* The escalate control pressed at step PHONE with need, budget, deadline and
\* contact method collected: the lead is still there.
C7_Witness ==
    /\ Handled /\ last.path = "escalate" /\ last.completed
    /\ last.step = Some(STEP_PHONE)
    /\ leads[last.client][1].step = STEP_PHONE
    /\ leads[last.client][1].need = Some(NEED_BOT)
    /\ leads[last.client][1].contact_method = Some(CONTACT_PHONE)
    /\ leads[last.client][1].escalation_open

\* The lead found at step CONTACT_METHOD with need, budget and deadline set,
\* and the message taken by the guided dialog to its end.
AtContactMethod ==
    /\ last'.op = "business_message" /\ last'.path = "dialog" /\ last'.completed
    /\ leads[last'.client] # None
    /\ leads[last'.client][1].step = STEP_CONTACT_METHOD
    /\ Truthy(leads[last'.client][1].need)
    /\ Truthy(leads[last'.client][1].budget)
    /\ Truthy(leads[last'.client][1].deadline)

\* C8 as stated: from CONTACT_METHOD with need, budget and deadline set, a
\* reply that normalizes to the phone method sets step PHONE, one that
\* normalizes to the call method sets step CALL_TIME, one that normalizes to
\* the in-chat method sets step DONE and finalizes the lead.
C8_ContactReplySetsStep ==
    [][ AtContactMethod =>
          LET contact == _normalize_contact(QuestionOf(last'.raw))
              after == leads'[last'.client][1]
          IN /\ contact = Some(CONTACT_PHONE) => after.step = STEP_PHONE
             /\ contact = Some(CONTACT_CALL) => after.step = STEP_CALL_TIME
             /\ contact = Some(CONTACT_TELEGRAM) =>
                    after.step = STEP_DONE /\ Thanks(last'.log) = 1
      ]_vars

\* C8 amended: the phone method sets step PHONE only while the lead holds no
\* phone after the extraction pass, the call method sets step CALL_TIME only
\* while it holds no call time; otherwise, and for the in-chat method, the
\* step becomes DONE and the lead is finalized.
C8_ContactReplySetsStepUnlessKnown ==
    [][ AtContactMethod =>
          LET contact == _normalize_contact(QuestionOf(last'.raw))
              after == leads'[last'.client][1]
              finalized == after.step = STEP_DONE /\ Thanks(last'.log) = 1
              asked == Thanks(last'.log) = 0
          IN /\ contact = Some(CONTACT_PHONE) =>
                    IF Truthy(after.phone) THEN finalized
                    ELSE after.step = STEP_PHONE /\ asked
             /\ contact = Some(CONTACT_CALL) =>
                    IF Truthy(after.call_time) THEN finalized
                    ELSE after.step = STEP_CALL_TIME /\ asked
             /\ contact = Some(CONTACT_TELEGRAM) => finalized
      ]_vars

\* The phone method chosen at CONTACT_METHOD by a lead whose phone is known:
\* the step is DONE and the client has been thanked.
C8_Witness ==
    /\ Handled /\ last.path = "dialog" /\ last.completed
    /\ last.step = Some(STEP_CONTACT_METHOD)
    /\ _normalize_contact(Question) = Some(CONTACT_PHONE)
    /\ leads[last.client][1].contact_method = Some(CONTACT_PHONE)
    /\ Truthy(leads[last.client][1].phone)
    /\ leads[last.client][1].step = STEP_DONE
    /\ Thanks(last.log) = 1

C11_EscalatesIffCritical ==
    ( Handled /\ last.risk # None ) =>
        ( last.path = "escalate" <=>
              \/ last.risk[1].need_human
              \/ last.risk[1].urgency = "high"
              \/ (last.risk[1].negative /\ last.risk[1].confidence >= 60) )

\* The provider's verdict is negative with confidence exactly 0.6, urgency
\* low and no need for a human: the message is escalated.
C11_Witness ==
    /\ Handled /\ last.completed /\ last.path = "escalate"
    /\ last.risk = Some([ need_human |-> FALSE, negative |-> TRUE,
                          urgency |-> "low", reason |-> "llm",
                          confidence |-> 60 ])
    /\ last.escalated # None /\ last.escalated[1].negative
    /\ escalations[last.client] # None

\* The neutral verdict.
Neutral(risk) ==
    /\ ~risk.need_human /\ ~risk.negative
    /\ risk.urgency = "low" /\ risk.confidence = 0

\* An object with a field of the wrong type or value.
Malformed(reply) ==
    /\ reply.kind = "json"
    /\ \/ \E k \in DOMAIN reply.obj \cap {"need_human", "negative"} :
              reply.obj[k].t # "bool"
       \/ ( "urgency" \in DOMAIN reply.obj
            /\ \/ reply.obj.urgency.t # "str"
               \/ StrLower(reply.obj.urgency.v) \notin {"low", "medium", "high"} )
       \/ ( "confidence" \in DOMAIN reply.obj /\ reply.obj.confidence.t # "num" )

\* C12: classify_risk raises nothing and returns the neutral verdict when the
\* provider is not configured, the call raises, the output holds no JSON
\* object, or the object has a field of the wrong type or value.
C12_NeutralOnEveryProviderOutcome ==
    ( /\ last.op = "classify_risk"
      /\ \/ ~last.configured
         \/ last.reply.kind \in {"raise", "text"}
         \/ Malformed(last.reply) ) =>
        ( ~last.raised /\ Neutral(last.risk) )

C14_ReentryAfterDoneStartsAfresh ==
    [][ ( /\ last'.op = "business_message"
          /\ leads[last'.client] # None
          /\ leads[last'.client][1].step = STEP_DONE
          /\ last'.path \notin {"escalate", "risk", "blocked", ""} ) =>
          LET c == last'.client
              reset == create_or_reset_lead(leads[c], now)[1]
          IN /\ reset.step = 0
             /\ \A k \in {"need", "budget", "deadline", "contact_method",
                          "phone", "call_time", "summary_json"} : reset[k] = None
             /\ last'.path = "rag"
             /\ leads'[c][1].summary_json = None
             /\ \E e \in Envs(c, last'.raw) :
                   \E fresh \in { on_business_message(
                                       [ Handling(c, 0) EXCEPT !.lead = None ],
                                       last'.raw, e) } :
                       /\ CoreOf(leads'[c][1]) = CoreOf(fresh.lead[1])
                       /\ last'.log = fresh.log
      ]_vars

\* A greeting after a completed cycle, nothing retrieved: the lead is at step
\* NEED with every collected field empty.
C14_Witness ==
    /\ Handled /\ last.path = "rag" /\ last.completed
    /\ last.step = Some(STEP_DONE)
    /\ last.raw = T_HELLO
    /\ CoreOf(leads[last.client][1]) =
           [ CoreOf(FreshLead(0)) EXCEPT !.step = STEP_NEED ]
    /\ leads[last.client][1].summary_json = None

\* C15: a message handled at step WELCOME that is answered from a non-empty
\* retrieval and carries no topic signal (no need is inferred from it) leaves
\* the lead at step WELCOME.
C15_AnsweredWithoutTopicStaysAtWelcome ==
    [][ ( /\ last'.op = "business_message" /\ last'.path = "rag"
          /\ last'.completed
          /\ last'.step = Some(STEP_WELCOME)
          /\ \E i \in DOMAIN last'.log : IsEvent(last'.log[i], "generate_answer")
          /\ _normalize_need(QuestionOf(last'.raw)) = None
          /\ ~Truthy(leads'[last'.client][1].need) ) =>
          leads'[last'.client][1].step = STEP_WELCOME
      ]_vars

\* The first required field still unset, in the fixed order, as a step.
RequiredStep(lead) ==
    CASE ~Truthy(lead.need) -> 1
      [] Truthy(lead.need) /\ ~Truthy(lead.budget) -> 2
      [] Truthy(lead.need) /\ Truthy(lead.budget) /\ ~Truthy(lead.deadline) -> 3
      [] Truthy(lead.need) /\ Truthy(lead.budget) /\ Truthy(lead.deadline)
         /\ ~Truthy(lead.contact_method) -> 4
      [] OTHER ->
            IF lead.contact_method = Some(CONTACT_PHONE) /\ ~Truthy(lead.phone)
            THEN 5
            ELSE IF lead.contact_method = Some(CONTACT_CALL)
                    /\ ~Truthy(lead.call_time)
            THEN 6 ELSE 7

\* The column a guided-flow step asks for, and what a reply gives for it.
ColumnOfStep(step) ==
    CASE step = STEP_NEED -> "need"
      [] step = STEP_BUDGET -> "budget"
      [] step = STEP_DEADLINE -> "deadline"
      [] step = STEP_CONTACT_METHOD -> "contact_method"
      [] step = STEP_PHONE -> "phone"
      [] OTHER -> "call_time"

NormalizedFor(step, text) ==
    CASE step = STEP_NEED -> _normalize_need(text)
      [] step = STEP_BUDGET -> _normalize_budget(text)
      [] step = STEP_DEADLINE -> _normalize_deadline(text)
      [] step = STEP_CONTACT_METHOD -> _normalize_contact(text)
      [] step = STEP_PHONE -> _extract_phone(text)
      [] OTHER -> Some(text)

Collected == { "need", "budget", "deadline", "contact_method", "phone", "call_time" }

\* A reply taken by the guided dialog to its end that gives no value for the
\* step's field, the extraction pass proposing nothing.
InvalidReply ==
    /\ last'.op = "business_message" /\ last'.path = "dialog" /\ last'.completed
    /\ leads[last'.client] # None
    /\ leads[last'.client][1].step \in 1..6
    /\ NormalizedFor(leads[last'.client][1].step, QuestionOf(last'.raw)) = None
    /\ \A k \in DOMAIN last'.extracted : last'.extracted[k] = None

C17_StepIsFirstUnsetField ==
    ( Handled /\ last.completed /\ last.path \in {"dialog", "rag"} ) =>
        leads[last.client][1].step = RequiredStep(leads[last.client][1])

\* C18: a guided-flow or knowledge-entry handling leaves a collected field
\* that held a value as it was, unless the reply itself gives a value for the
\* step's field, and then the field holds that value: nothing proposed by
\* field extraction or intent classification replaces a stored value or the
\* explicit answer.
C18_InferenceFillsOnlyUnsetFields ==
    [][ ( /\ last'.op = "business_message" /\ last'.path \in {"dialog", "rag"}
          /\ leads[last'.client] # None
          /\ leads[last'.client][1].step # STEP_DONE ) =>
          LET pre == leads[last'.client][1]
              post == leads'[last'.client][1]
              explicit(k) ==
                  IF last'.path = "dialog" /\ ColumnOfStep(pre.step) = k
                  THEN NormalizedFor(pre.step, QuestionOf(last'.raw)) ELSE None
          IN \A k \in Collected :
                IF explicit(k) # None THEN post[k] = explicit(k)
                ELSE Truthy(pre[k]) => post[k] = pre[k]
      ]_vars

\* A budget option chosen at step BUDGET while the provider proposes another
\* need and another budget: the lead keeps its need and has the chosen budget.
C18_Witness ==
    /\ Handled /\ last.path = "dialog" /\ last.completed
    /\ last.step = Some(STEP_BUDGET) /\ last.raw = BUDGET_30_80
    /\ last.extracted.need = Some(NEED_SITE)
    /\ last.extracted.budget = Some(BUDGET_150PLUS)
    /\ leads[last.client][1].need = Some(NEED_BOT)
    /\ leads[last.client][1].budget = Some(BUDGET_30_80)
    /\ leads[last.client][1].deadline = Some(DEADLINE_URGENT)

\* C19: a handling that completes a lead that has an escalation record (and
\* so finalizes it) sets the record's escalation_open to FALSE and leaves its
\* last_alert_at, reason, urgency and last_message as they were.
C19_ClosingKeepsAlertStamp ==
    [][ ( /\ last'.op = "business_message" /\ last'.completed
          /\ last'.path \in {"dialog", "rag"}
          /\ leads'[last'.client][1].step = STEP_DONE
          /\ escalations[last'.client] # None ) =>
          LET pre == escalations[last'.client][1]
              post == escalations'[last'.client][1]
          IN /\ escalations'[last'.client] # None
             /\ ~post.escalation_open
             /\ post.last_alert_at = pre.last_alert_at
             /\ post.reason = pre.reason
             /\ post.urgency = pre.urgency
             /\ post.last_message = pre.last_message
      ]_vars

\* A lead escalated by the escalate control and then completed: the record is
\* closed and still carries the alert time and the reason.
C19_Witness ==
    /\ Handled /\ last.completed /\ last.path = "dialog"
    /\ Thanks(last.log) = 1
    /\ leads[last.client][1].step = STEP_DONE
    /\ ~leads[last.client][1].escalation_open
    /\ escalations[last.client] # None
    /\ ~escalations[last.client][1].escalation_open
    /\ escalations[last.client][1].last_alert_at = Some(0)
    /\ escalations[last.client][1].reason = "button"
    /\ escalations[last.client][1].last_message = MANAGER_BUTTON

\* C20: the operator destination is the connection owner's chat if the
\* connection row has one; otherwise the saved admin chat if there is one;
\* otherwise the configured admin chat (possibly none).
C20_DestinationInFixedOrder ==
    last.op = "resolve_admin_chat_id" =>
        LET owner == IF last.conn = None THEN None
                     ELSE last.conn[1].owner_user_chat_id
        IN /\ owner # None => last.got = owner
           /\ (owner = None /\ last.saved # None) => last.got = last.saved
           /\ (owner = None /\ last.saved = None) => last.got = last.env

\* The connection row has no owner chat, an admin chat is saved and another
\* is configured: the saved one is used.
C20_Witness ==
    /\ last.op = "resolve_admin_chat_id"
    /\ last.conn # None /\ last.conn[1].owner_user_chat_id = None
    /\ last.saved = Some(777)
    /\ last.env = Some(900)
    /\ last.got = Some(777)

\* C21: when a message reaches knowledge answering and the provider is
\* unconfigured, the knowledge table is missing or the embedding call fails,
\* the handling is not aborted and the client is sent the clarifying
\* fallback with the need menu.
C21_UnavailableRetrievalSendsFallback ==
    [][ ( /\ last'.op = "business_message"
          /\ last'.path = "rag"
          /\ ( ~config.openai_api_key \/ last'.found \in {"raise", "no_table"} ) )
        => ( /\ last'.completed
             /\ \E i \in DOMAIN last'.log :
                    IsSend(last'.log[i], "client", "clarify") ) ]_vars

\* C22 (as stated): with no retrieved chunks generate_answer returns the
\* clarifying fallback, no sources, and does not call the provider.
C22_NoChunksGivesClarifyingFallback ==
    ( last.op = "generate_answer" /\ last.chunks = <<>> )
    => last.answer = [ body |-> "clarify", sources |-> <<>>, called |-> FALSE ]

\* C22 (amended): with no retrieved chunks generate_answer calls no provider
\* and appends no sources; its text is the clarifying fallback when the
\* provider is configured and the notice that the AI mode is unavailable
\* when it is not.
C22_NoChunksGivesFallbackOfTheDeployment ==
    ( last.op = "generate_answer" /\ last.chunks = <<>> )
    => last.answer = [ body |-> IF last.configured THEN "clarify"
                                ELSE "ai_unavailable",
                       sources |-> <<>>, called |-> FALSE ]

\* No chunks, the provider configured and ready to answer: the clarifying
\* fallback is returned and the provider is not called.
C22_Witness ==
    /\ last.op = "generate_answer"
    /\ last.chunks = <<>>
    /\ last.configured
    /\ last.reply = [ kind |-> "completion", text |-> "answer" ]
    /\ last.answer.body = "clarify"
    /\ ~last.answer.called

\* C23: with chunks and a configured provider, a call that raises or returns
\* an empty completion gives the fallback of the no-chunks case with no
\* sources; a non-empty completion gives that text with the deduplicated
\* source urls.
C23_SourcesOnlyOnSuccess ==
    ( last.op = "generate_answer" /\ last.configured /\ last.chunks # <<>> )
    => IF last.reply.kind = "raise" \/ last.reply.text = ""
       THEN last.answer.body = "clarify" /\ last.answer.sources = <<>>
       ELSE /\ last.answer.body = last.reply.text
            /\ last.answer.sources =
                 _unique_urls([ k \in DOMAIN last.chunks |-> last.chunks[k].source_url ])

\* C24: chunk ids depend only on the url of a page and the ordinal of the
\* chunk in it, so two ingestions of pages with the same urls and chunk
\* counts produce the same ids; an upsert of records whose ids are all
\* stored already leaves the number of rows unchanged; and no two rows of
\* kb_chunks ever share an id.
C24_IngestionIsIdempotent ==
    [][ last'.op = "ingest" =>
          LET stored == { kb_chunks[i].id : i \in DOMAIN kb_chunks }
              given == { last'.ids[k] : k \in DOMAIN last'.ids }
          IN /\ ( last.op = "ingest" /\ last.keys = last'.keys )
                  => last'.ids = last.ids
             /\ given \subseteq stored => Len(kb_chunks') = Len(kb_chunks)
             /\ \A i, j \in DOMAIN kb_chunks' :
                    kb_chunks'[i].id = kb_chunks'[j].id => i = j ]_vars

\* Two pages were ingested after a longer text of one of them: the three
\* ids given are stored once each, over rows of the earlier ingestion, and
\* the row of the chunk that no longer exists is left as it was.
C24_Witness ==
    /\ last.op = "ingest"
    /\ ~last.raised
    /\ Len(last.keys) = 2
    /\ last.count = 3
    /\ Len(kb_chunks) = 4
    /\ \A k \in DOMAIN last.ids :
           Cardinality({ i \in DOMAIN kb_chunks : kb_chunks[i].id = last.ids[k] }) = 1
    /\ \E i \in DOMAIN kb_chunks : kb_chunks[i].content.tag = "new"
    /\ \E i \in DOMAIN kb_chunks : kb_chunks[i].content.tag = "old"

ButtonsShown(log) ==
    LET kb == reply_markup(log[Len(log)].kb)
    IN { kb[k] : k \in DOMAIN kb }

\* The values a step collects from a menu.
OptionsOf(step) ==
    CASE step = STEP_NEED -> ALLOWED_NEED
      [] step = STEP_BUDGET -> ALLOWED_BUDGET
      [] step = STEP_DEADLINE -> ALLOWED_DEADLINE
      [] step = STEP_CONTACT_METHOD -> ALLOWED_CONTACT
      [] OTHER -> {}

\* A reply of the guided dialog was handled to the end and left the lead at
\* a step of `steps`.
PromptedAt(steps) ==
    /\ last'.op = "business_message"
    /\ last'.completed
    /\ last'.path = "dialog"
    /\ leads'[last'.client][1].step \in steps
    /\ last'.log # <<>>
    /\ last'.log[Len(last'.log)].ev = "send"

\* C26 (as stated): the prompt of every non-terminal step, NEED to
\* CALL_TIME, shows a menu that includes the escalate control.
C26_EveryPromptOffersEscalation ==
    [][ PromptedAt(STEP_NEED..STEP_CALL_TIME)
        => MANAGER_BUTTON \in ButtonsShown(last'.log) ]_vars

\* C26 (amended): the prompts of NEED, BUDGET, DEADLINE and CONTACT_METHOD
\* show exactly the options of that step and the escalate control; the
\* prompts of PHONE and CALL_TIME remove the keyboard.
C26_MenuPromptsOfferEscalation ==
    [][ /\ PromptedAt(STEP_NEED..STEP_CONTACT_METHOD)
          => ButtonsShown(last'.log)
               = OptionsOf(leads'[last'.client][1].step) \cup { MANAGER_BUTTON }
        /\ PromptedAt({STEP_PHONE, STEP_CALL_TIME})
          => ButtonsShown(last'.log) = {} ]_vars

\* The budget was answered and the deadline is asked with its menu.
C26_Witness ==
    /\ last.op = "business_message"
    /\ last.completed
    /\ last.path = "dialog"
    /\ leads["A"][1].step = STEP_DEADLINE
    /\ last.step = Some(STEP_BUDGET)
    /\ last.log[Len(last.log)].kb = "deadline"

\* C27: an option of the menu shown for a field (the escalate control
\* aside), given to the normalizer of that field, comes back as it is.
C27_MenuOptionsNormalizeToThemselves ==
    ( /\ last.op = "normalize"
      /\ last.value # MANAGER_BUTTON
      /\ \E k \in DOMAIN KeyboardOf(last.field) : KeyboardOf(last.field)[k] = last.value )
    => last.got = Some(last.value)

\* C30: a budget text holding both "30" and "80" is given the 30-80 tier.
C30_ThirtyAndEightyIsMiddleTier ==
    ( /\ last.op = "normalize"
      /\ last.field = "budget"
      /\ Contains(last.value, <<"30">>)
      /\ Contains(last.value, <<"80">>) )
    => last.got = Some(BUDGET_30_80)

\* C28: a client at CONTACT_METHOD who chooses the call option is stored
\* with the call contact method and moved to CALL_TIME.
C28_CallOptionLeadsToCallTime ==
    [][ ( /\ last'.op = "business_message"
          /\ last'.completed
          /\ last'.path = "dialog"
          /\ last'.step = Some(STEP_CONTACT_METHOD)
          /\ last'.raw = CONTACT_CALL )
        => ( /\ leads'[last'.client][1].contact_method = Some(CONTACT_CALL)
             /\ leads'[last'.client][1].step = STEP_CALL_TIME ) ]_vars

\* The text matches the soft-negative patterns and those of no other tier.
SoftOnly(text) ==
    /\ AnyIn(NEGATIVE_SOFT_PATTERNS, lower(text))
    /\ ~AnyIn(HUMAN_REQUEST_PATTERNS, lower(text))
    /\ ~AnyIn(NEGATIVE_HARD_PATTERNS, lower(text))
    /\ ~AnyIn(PROFANITY_PATTERNS, lower(text))

\* C29: a handled message that matches only the soft-negative tier gets the
\* verdict negative, medium, 0.55 and no need for a human; it is not
\* escalated; the first thing sent to the client is the empathetic note, and
\* the handling goes on into knowledge answering or the guided dialog.
C29_SoftNegativeGetsNoteAndContinues ==
    ( Handled /\ last.completed /\ SoftOnly(Question) ) =>
        /\ last.risk = Some([ need_human |-> FALSE, negative |-> TRUE,
                              urgency |-> "medium", reason |-> "soft",
                              confidence |-> 55 ])
        /\ last.escalated = None
        /\ last.path \in {"rag", "dialog"}
        /\ \E i \in 1..(Len(last.log) - 1) :
              /\ IsSend(last.log[i], "client", "soft_note")
              /\ \A j \in 1..(i - 1) :
                    ~(last.log[j].ev = "send" /\ last.log[j].to = "client")
              /\ last.log[i + 1].ev = IF last.path = "rag" THEN "search"
                                      ELSE "extract_lead_fields"

\* A soft negative was sent as a reply in the guided dialog: the note was
\* sent and then the need was asked again.
C29_Witness ==
    /\ Handled
    /\ last.completed
    /\ last.raw = T_SOFT
    /\ last.path = "dialog"
    /\ \E i \in DOMAIN last.log : IsSend(last.log[i], "client", "soft_note")
    /\ IsSend(last.log[Len(last.log)], "client", "ask_need")

\* The text holds a run that starts and ends with a digit, has only digits
\* and separators between them, and counts at least n digits.
HasDigitRun(text, n) ==
    \E i, j \in DOMAIN text :
        /\ i <= j
        /\ IsDigit(text[i]) /\ IsDigit(text[j])
        /\ \A k \in i..j : IsPhoneMid(text[k])
        /\ Cardinality({ k \in i..j : IsDigit(text[k]) }) >= n

\* C31: _extract_phone returns a value exactly when the text holds a run of
\* at least 9 digits, separators allowed inside the run.
C31_PhoneIffNineDigits ==
    last.op = "_extract_phone" =>
        ( last.got # None <=> HasDigitRun(last.value, 9) )

\* The chunks are those of a walk over the collapsed text with the given
\* step: chunk i starts at offset (i - 1) * step, every chunk but the last
\* has chunk_size characters, the last is not empty, has at most chunk_size
\* characters and ends where the text ends; an empty text has no chunk.
ChunksWalk(step) ==
    LET n == Len(last.chunks)
        len == Len(last.clean)
    IN IF len = 0 THEN n = 0
       ELSE /\ n >= 1
            /\ \A i \in 1..n :
                  /\ last.spans[i].from = (i - 1) * step
                  /\ last.chunks[i] = SubSeq(last.clean, last.spans[i].from + 1,
                                             last.spans[i].to)
                  /\ i < n => Len(last.chunks[i]) = last.chunk_size
            /\ Len(last.chunks[n]) \in 1..last.chunk_size
            /\ last.spans[n].to = len

\* C32 (as stated): for every size and overlap the step of the walk is
\* size - overlap.
C32_ChunksStepBySizeMinusOverlap ==
    last.op = "_chunk_text" => ChunksWalk(last.chunk_size - last.overlap)

\* C32 (amended): the step of the walk is size - overlap when the overlap
\* is smaller than the size, and 1 otherwise.
C32_ChunksStepByAtLeastOne ==
    last.op = "_chunk_text" =>
        ChunksWalk(IF last.overlap < last.chunk_size
                   THEN last.chunk_size - last.overlap ELSE 1)

\* A text with spaces to collapse is cut with an overlap as large as the
\* chunk size: the walk advances by one character.
C32_Witness ==
    /\ last.op = "_chunk_text"
    /\ last.text = << "a", " ", " ", "b" >>
    /\ last.clean = << "a", " ", "b" >>
    /\ last.chunk_size = 2
    /\ last.overlap = 2
    /\ last.chunks = << << "a", " " >>, << " ", "b" >> >>

RECURSIVE WithinLinks(_, _, _)
\* The urls at most k links away from root in the link graph.
WithinLinks(pages, root, k) ==
    IF k = 0 THEN { root }
    ELSE LET near == WithinLinks(pages, root, k - 1)
         IN near \cup { u \in CrawlUrls :
                          \E v \in near : \E i \in DOMAIN pages[v].hrefs :
                              _normalize_url(pages[v].hrefs[i]) = Some(u) }

RECURSIVE SumLinks(_, _)
SumLinks(pages, urls) ==
    IF urls = {} THEN 0
    ELSE LET u == CHOOSE x \in urls : TRUE
         IN Len(pages[u].hrefs) + SumLinks(pages, urls \ { u })

LeadComplete(lead) ==
    /\ Truthy(lead.need)
    /\ Truthy(lead.budget)
    /\ Truthy(lead.deadline)
    /\ Truthy(lead.contact_method)
    /\ lead.contact_method = Some(CONTACT_PHONE) => Truthy(lead.phone)
    /\ lead.contact_method = Some(CONTACT_CALL) => Truthy(lead.call_time)

\* C34: a lead whose step is DONE holds need, budget, deadline and contact
\* method, the phone when the contact method is the phone and the call time
\* when it is a call; and a handling that sent the lead summary to the
\* operator leaves such a lead.
C34_DoneLeadIsComplete ==
    /\ \A c \in Clients :
          (leads[c] # None /\ leads[c][1].step = STEP_DONE) => LeadComplete(leads[c][1])
    /\ (Handled /\ Summaries(last.log) >= 1) =>
          /\ leads[last.client] # None
          /\ LeadComplete(leads[last.client][1])

\* A client who chose the phone and gave a number: the lead is DONE with the
\* phone stored and its summary went to the operator.
C34_Witness ==
    /\ Handled
    /\ Summaries(last.log) = 1
    /\ leads[last.client] # None
    /\ leads[last.client][1].step = STEP_DONE
    /\ leads[last.client][1].contact_method = Some(CONTACT_PHONE)
    /\ Truthy(leads[last.client][1].phone)

\* C35: the handling of a message, by a handler that runs alone for its
\* pair, never lowers the stored step of a lead that is not DONE, and so
\* brings a lead back to step 0 only through the reset of a DONE lead.
C35_StepNeverDecreases ==
    [][ \A c \in Clients :
          leads[c] # None =>
              /\ leads'[c] # None
              /\ leads[c][1].step # STEP_DONE => leads'[c][1].step >= leads[c][1].step
              /\ (leads[c][1].step # 0 /\ leads'[c][1].step = 0) =>
                     leads[c][1].step = STEP_DONE ]_vars

\* A reply at the contact step of a lead whose phone is known already: the
\* step moves on to DONE, past PHONE.
C35_Witness ==
    /\ Handled
    /\ last.path = "dialog"
    /\ last.step = Some(STEP_CONTACT_METHOD)
    /\ leads[last.client] # None
    /\ leads[last.client][1].step = STEP_DONE
    /\ leads[last.client][1].contact_method = Some(CONTACT_PHONE)

\* C36: with the connection able to reply, no escalation and every send
\* delivered, a client who answers each prompt with a valid option (a valid
\* phone number when asked) gets the lead finalized: every message moves
\* the lead to a later step, and the lead reaches DONE.
C36_ValidAnswersReachDone ==
    /\ [][ StepOf("A")' > StepOf("A") ]_vars
    /\ <>( StepOf("A") = STEP_DONE )

\* C37: after a handling that ran to its end, the lead of the client is
\* marked escalation_open exactly when the escalations row of the client is
\* open (a missing row counts as not open).
C37_LeadAndEscalationFlagsAgree ==
    (Handled /\ last.completed) =>
        ( (leads[last.client] # None /\ leads[last.client][1].escalation_open)
          <=> (escalations[last.client] # None
               /\ escalations[last.client][1].escalation_open) )

\* The handling observed sent the operator's alert.
AlertDelivered(seen) ==
    \E k \in DOMAIN seen.log :
        /\ IsSend(seen.log[k], "admin", "alert")
        /\ (k < Len(seen.log) \/ seen.completed)

\* A step that handles a message and calls mark_escalation.
EscalationHandled ==
    /\ last'.op = "business_message"
    /\ last'.alert # None
    /\ (last' # last \/ escalations' # escalations)

\* C38 (as stated): when the alert of a qualifying event was due and was not
\* delivered, the next qualifying event of the client is answered
\* should_alert = TRUE.
C38_UndeliveredAlertLeavesCooldownOff ==
    [][ ( /\ Handled
          /\ last.alert = Some(TRUE)
          /\ ~AlertDelivered(last)
          /\ EscalationHandled
          /\ last'.client = last.client )
        => last'.alert = Some(TRUE) ]_vars

\* C38 (amended): a qualifying event answered should_alert = TRUE stamps
\* last_alert_at with the time of the call, whether the alert is then
\* delivered or not, and a qualifying event less than the cooldown after the
\* stamp is answered should_alert = FALSE and leaves the stamp.
C38_CooldownStartsAtTheCheck ==
    [][ EscalationHandled =>
          LET c == last'.client
          IN /\ last'.alert = Some(TRUE) => LastAlertAt(escalations'[c]) = Some(now')
             /\ ( /\ LastAlertAt(escalations[c]) # None
                  /\ now - LastAlertAt(escalations[c])[1] < CooldownMinutes )
                => /\ last'.alert = Some(FALSE)
                   /\ LastAlertAt(escalations'[c]) = LastAlertAt(escalations[c]) ]_vars

\* A request for the operator answered should_alert = FALSE while no
\* destination has ever been resolvable: the alert that started the cooldown
\* was dropped.
C38_Witness ==
    /\ Handled
    /\ last.alert = Some(FALSE)
    /\ last.admin = None
    /\ settings = None
    /\ config.admin_chat_id = None
    /\ LastAlertAt(escalations[last.client]) # None

\* C39: when a handler of a first message creates the lead, a lead row the
\* other handler has created and written keeps its step, its fields and its
\* last client message.
C39_LazyCreationKeepsData ==
    [][ \A i \in Procs :
          ( /\ calls[i].pc = "create_lead"
            /\ calls'[i].pc = "touch_lead"
            /\ leads[calls[i].client] # None )
          => /\ CoreOf(leads'[calls[i].client][1]) = CoreOf(leads[calls[i].client][1])
             /\ leads'[calls[i].client][1].last_client_message
                  = leads[calls[i].client][1].last_client_message ]_vars

====
